---- MODULE Spec2Model ----
(***************************************************************************)
(* Pan / momentum / collision / zoom engine of the ImageCanvas component   *)
(* and the score clock of the App shell (client App.tsx).                  *)
(*                                                                         *)
(* Units.  Offsets and sizes are whole pixels, marker positions whole      *)
(* percents, times whole milliseconds.  Velocities are fixed point in      *)
(* 1/1000 px per ms (0.45 px/ms is 450).  Size percents are fixed point in *)
(* tenths of a percent (600% is 6000).  A quotient the code computes in    *)
(* floating point is truncated toward zero to the unit.                    *)
(***************************************************************************)
EXTENDS Integers, Sequences, FiniteSets, TLC

----------------------------------------------------------------------------
(* Program constants *)

collisionRadius == 24
dampingFactor == 15
boostFactor == 23
maxSpeed == 1800
nudge == 450
stopEpsilon == 10
bounceDamping == 4
friction == 18
ZOOM_PERCENT == 6000
endSizePercent == 1000
duration == 800
initialScore == 100000
hitScore == 500
null == 0
\* minimum spacing of two markers, in percent
minDistance == 5

----------------------------------------------------------------------------
(* Bounds of the model *)

\* environment events (drag-moves, momentum steps that move, clock frames,
\* resizes, isZooming turned off) in one run
MaxEvents == 4
\* hits and bounces of the transient flags taken alone
MaxFeedback == 4
\* markers requested from the generator (count, 50 in the source) and
\* candidates it may draw (3000 in the source)
MaxMarkers == 6
MaxAttempts == 7
\* submit-score requests the server handles
MaxRequests == 3
\* drag-moves and momentum steps of a canvas resting near an image edge
MaxBounceEvents == 5
\* frames a momentum loop may take
MaxFrames == 30
\* create-post submissions the server handles
MaxPosts == 2
\* asset-url requests in flight at a time
MaxFetches == 3

----------------------------------------------------------------------------
(* Inputs *)

\* measured container widths (the container is square): not laid out, laid out
ContainerSizes == {0, 50}
\* pointer deltas of one drag-move, in px
DragDeltas == {<<60, 0>>, <<-30, 0>>, <<0, -30>>}
\* ms between two pointer samples (0: same timestamp; 10000: the pointer was
\* held still before the move)
DragDts == {0, 100, 10000}
\* ms between two animation frames of the momentum loop
FrameDts == {16, 1000}
\* ms between two animation frames of the zoom animation
ZoomDts == {400, 800}
\* ms between two animation frames of the score clock
ClockDts == {60000}
\* handles of frame callbacks and timers
Handles == 1..4
\* velocity components of the collision response taken alone, in 1/1000 px/ms
VelocityInputs == {-2400, -1500, -900, -300, -20, 0, 20, 300, 500, 900, 1500,
                   1800, 2400}
\* measured container dimensions, in px (0: layout not ready)
MeasuredContainer == {0, 50, 300}
\* measured image dimensions, in px
MeasuredImage == {0, 20, 300, 1800}
\* offset components before a measurement, in px
PriorOffsets == {-1000, 0, 40, 1000}
\* ms between two frames of a zoom animation taken alone (0: same timestamp)
ZoomSampleDts == {0, 100, 400, 800, 1200}
\* offsets at the start of a zoom animation taken alone, in px
SnapshotXs == {-150, -30, 60, 120}
SnapshotYs == {-150, -90, -30, 90}
\* candidate points of the marker generator, in percent (10 + random * 80)
Candidates == {<<10, 10>>, <<13, 14>>, <<12, 10>>, <<20, 20>>, <<30, 10>>,
               <<50, 50>>, <<89, 89>>}
\* body.username and body.postId of a submit-score request
Usernames == {"", "alice", "bob"}
PostIds == {"", "t3_a"}
\* drag deltas (px) and rest positions (px) near the left and top edges
BounceDeltas == {<<-30, 0>>, <<0, -30>>, <<-30, -30>>}
RestOffsets == {<<-120, 0>>, <<0, -120>>}
\* release positions (px), release velocities (1/1000 px/ms) and frame
\* intervals (ms) of a coasting canvas
ReleaseOffsets == {<<-100, 0>>, <<0, 0>>, <<0, -100>>}
ReleaseVelocities == {<<3750, 0>>, <<600, 0>>, <<-1875, -1875>>, <<0, 300>>}
CoastDts == {200, 1000}
\* fields of the create-game-form: level names, image names, answers and
\* celebrity names
LevelNames == {"L1", "L2"}
ImageUrls == {"a.png"}
Answers == {"Delulu", "Celulu"}
CelebrityNames == {"Ann", "Bob"}
\* the fields of the data:queue hash; an absent field reads as ""
QueueFields == LevelNames \cup {"answer", "celebrityName"}
\* raw image names: names of assets, a URL of an allowed origin and a URL the
\* content security policy blocks
AssetNames == {"a.png", "b.png"}
DirectUrls == {"https://i.redd.it/x.png"}
BlockedUrls == {"https://example.com/x.png"}
ImageNames == AssetNames \cup DirectUrls \cup BlockedUrls
\* what GET /api/asset-url answers for an asset name
UrlOf(name) == IF name = "a.png" THEN "https://i.redd.it/a.png"
               ELSE "https://i.redd.it/b.png"
\* imageLoadError: the code, and the name the error was reported for
NoError == [code |-> "null", of |-> ""]

----------------------------------------------------------------------------
(* Arithmetic *)

Abs(a) == IF a < 0 THEN -a ELSE a

Min(a, b) == IF a < b THEN a ELSE b

Max(a, b) == IF a > b THEN a ELSE b

\* a / b for b > 0, truncated toward zero
TDiv(a, b) == IF a >= 0 THEN a \div b ELSE -((-a) \div b)

RECURSIVE SqrtSearch(_, _, _)
\* least r in lo..hi with r * r >= n, by bisection
SqrtSearch(n, lo, hi) ==
  IF lo >= hi THEN lo
  ELSE LET mid == (lo + hi) \div 2
       IN IF mid * mid >= n THEN SqrtSearch(n, lo, mid)
          ELSE SqrtSearch(n, mid + 1, hi)

\* Math.hypot(vx, vy), rounded up to the unit
Hypot(vx, vy) == SqrtSearch(vx * vx + vy * vy, 0, 40000)

RECURSIVE GCD(_, _)
GCD(a, b) == IF b = 0 THEN a ELSE GCD(b, a % b)

RECURSIVE ExpSeries(_, _, _, _)
\* sum of the terms k.. of the series of exp(-x), x and the terms in 1/10000
ExpSeries(x, k, term, acc) ==
  IF term = 0 THEN acc
  ELSE ExpSeries(x, k + 1, -TDiv(term * x, 10000 * (k + 1)), acc + term)

\* Math.exp(-friction * dt), in 1/10000; friction is 0.0018 per ms
Decay(dt) == ExpSeries(friction * dt, 0, 10000, 0)

\* Math.atan of t (in 1/1000, 0 <= t <= 1000) in whole degrees
AtanDeg(t) == (45 * t + (((t * (1000 - t)) \div 1000) * 15642) \div 1000 + 500)
                \div 1000

\* Math.atan2(y, x) in whole degrees, in -179..180
Atan2Deg(y, x) ==
  LET ax == Abs(x)
      ay == Abs(y)
      base == IF ax = 0 /\ ay = 0 THEN 0
              ELSE IF ax >= ay THEN AtanDeg((ay * 1000) \div ax)
              ELSE 90 - AtanDeg((ax * 1000) \div ay)
  IN IF y >= 0 THEN (IF x >= 0 THEN base ELSE 180 - base)
     ELSE (IF x >= 0 THEN -base ELSE base - 180)

----------------------------------------------------------------------------
(* State *)

VARIABLES
  \* ImageCanvas: React state
  offset, hitColor, edgeHit, zoomSizePercent, markers, arrowRotation,
  \* ImageCanvas: refs
  hitTimeoutRef, edgeHitTimeoutRef, zoomAnimationRef, initialZoomStateRef,
  zoomCompletedRef, isDraggingRef, velocityRef, boundsRef, animationRef,
  imageSizeRef, canvasSizeRef,
  \* ImageCanvas: lifecycle and the host's pending callbacks
  mounted, momFrames, zoomFrames, hitTimers, edgeTimers,
  \* App
  score, showGuessUI, isZooming, countdown, countdownStartedRef, clockFrame,
  \* server: redis keys and the requests being handled
  submittedHash, leaderboard, submitRequests, queueHash, levelHashes,
  postJobs, posts, queuedWith,
  \* App: image resolution
  rawImageUrl, resolvedImageUrl, imageLoadError, assetFetches,
  effectPending, stateUpdates,
  \* bookkeeping: environment events left, the last operation and what it did
  budget, last

canvasVars == <<offset, hitColor, edgeHit, zoomSizePercent, markers,
                hitTimeoutRef, edgeHitTimeoutRef, zoomAnimationRef,
                initialZoomStateRef, zoomCompletedRef, isDraggingRef,
                velocityRef, boundsRef, animationRef, imageSizeRef,
                canvasSizeRef, mounted, momFrames, zoomFrames, hitTimers,
                edgeTimers>>

appVars == <<score, showGuessUI, isZooming, countdown, countdownStartedRef,
             clockFrame>>

serverVars == <<submittedHash, leaderboard, submitRequests, queueHash,
                levelHashes, postJobs, posts, queuedWith>>

assetVars == <<rawImageUrl, resolvedImageUrl, imageLoadError, assetFetches,
               effectPending, stateUpdates>>

netVars == <<serverVars, assetVars>>

\* what the canvas operations other than a drag release leave alone
restVars == <<netVars, arrowRotation>>

vars == <<canvasVars, appVars, restVars, budget, last>>

----------------------------------------------------------------------------
(* Markers *)

\* a type pattern that alternates
MarkerTypeAlternating(k) == IF k % 2 = 0 THEN "obstacle" ELSE "powerup"

\* type of the k-th accepted marker (k from 0)
MarkerType(k) == IF k % 5 < 2 THEN "obstacle" ELSE "powerup"

Marker(k, x, y) ==
  [id |-> k, x |-> x, y |-> y, type |-> MarkerType(k), active |-> TRUE]

\* a spacing test against the last accepted marker only
isFarEnoughLast(x, y, existing) ==
  \/ existing = <<>>
  \/ LET m == existing[Len(existing)]
     IN (x - m.x) * (x - m.x) + (y - m.y) * (y - m.y)
          >= minDistance * minDistance

\* isFarEnough(x, y, existing): no accepted marker is nearer than minDistance
isFarEnough(x, y, existing) ==
  \A k \in DOMAIN existing :
    LET dx == x - existing[k].x
        dy == y - existing[k].y
    IN ~(dx * dx + dy * dy < minDistance * minDistance)

\* one outcome of the generator: accepted points, pairwise at least 5 apart
InitialMarkers ==
  << Marker(0, 10, 50), Marker(1, 60, 50), Marker(2, 65, 50) >>

----------------------------------------------------------------------------
(* Bounds Calculator *)

ZeroBounds ==
  [softMinX |-> 0, softMaxX |-> 0, softMinY |-> 0, softMaxY |-> 0,
   hardMinX |-> 0, hardMaxX |-> 0, hardMinY |-> 0, hardMaxY |-> 0]

\* clampOffset without the clamp
clampOffsetUnclamped(x, y, b) == [x |-> x, y |-> y]

\* clampOffset that clamps the x axis only
clampOffsetXOnly(x, y, b) ==
  [x |-> Min(Max(x, b.hardMinX), b.hardMaxX), y |-> y]

clampOffset(x, y, b) ==
  [x |-> Min(Max(x, b.hardMinX), b.hardMaxX),
   y |-> Min(Max(y, b.hardMinY), b.hardMaxY)]

\* bounds with an overshoot of the whole container dimension
BoundsOfFullOvershoot(c, i) ==
  LET halfExcessX == Max(0, TDiv(i.width - c.width, 2))
      halfExcessY == Max(0, TDiv(i.height - c.height, 2))
  IN [softMinX |-> -halfExcessX, softMaxX |-> halfExcessX,
      softMinY |-> -halfExcessY, softMaxY |-> halfExcessY,
      hardMinX |-> -halfExcessX - c.width,
      hardMaxX |-> halfExcessX + c.width,
      hardMinY |-> -halfExcessY - c.height,
      hardMaxY |-> halfExcessY + c.height]

\* bounds without the floor of the half excess at 0
BoundsOfNoFloor(c, i) ==
  LET halfExcessX == TDiv(i.width - c.width, 2)
      halfExcessY == TDiv(i.height - c.height, 2)
      overshootX == TDiv(c.width * 5, 10)
      overshootY == TDiv(c.height * 5, 10)
  IN [softMinX |-> -halfExcessX, softMaxX |-> halfExcessX,
      softMinY |-> -halfExcessY, softMaxY |-> halfExcessY,
      hardMinX |-> -halfExcessX - overshootX,
      hardMaxX |-> halfExcessX + overshootX,
      hardMinY |-> -halfExcessY - overshootY,
      hardMaxY |-> halfExcessY + overshootY]

\* bounds from the measured container (c) and image (i) rectangles
BoundsOf(c, i) ==
  LET halfExcessX == Max(0, TDiv(i.width - c.width, 2))
      halfExcessY == Max(0, TDiv(i.height - c.height, 2))
      overshootX == TDiv(c.width * 5, 10)
      overshootY == TDiv(c.height * 5, 10)
  IN [softMinX |-> -halfExcessX, softMaxX |-> halfExcessX,
      softMinY |-> -halfExcessY, softMaxY |-> halfExcessY,
      hardMinX |-> -halfExcessX - overshootX,
      hardMaxX |-> halfExcessX + overshootX,
      hardMinY |-> -halfExcessY - overshootY,
      hardMaxY |-> halfExcessY + overshootY]

\* width of the image element: the size percent of the (square) container
ImageWidth(c, size) ==
  TDiv(c * (IF size # null THEN size ELSE ZOOM_PERCENT), 1000)

----------------------------------------------------------------------------
(* Collision Detector *)

\* squared distance test of one marker against the crosshair at offset (nx, ny)
InRange(m, nx, ny, imgW, imgH) ==
  LET dx == TDiv((m.x - 50) * imgW, 100) + nx
      dy == TDiv((m.y - 50) * imgH, 100) + ny
  IN dx * dx + dy * dy <= collisionRadius * collisionRadius

\* indices of the active markers in range
Hits(ms, nx, ny, imgW, imgH) ==
  {k \in DOMAIN ms : ms[k].active /\ InRange(ms[k], nx, ny, imgW, imgH)}

SetMax(S) == CHOOSE a \in S : \A b \in S : b <= a

SetMin(S) == CHOOSE a \in S : \A b \in S : a <= b

\* prev.map(...): the markers after one pass
UpdatedMarkers(ms, nx, ny, imgW, imgH) ==
  [k \in DOMAIN ms |->
     IF k \in Hits(ms, nx, ny, imgW, imgH)
     THEN [ms[k] EXCEPT !.active = FALSE] ELSE ms[k]]

\* hitType after the map: every in-range marker assigns it, the last one stays
HitTypeOf(ms, nx, ny, imgW, imgH) ==
  LET h == Hits(ms, nx, ny, imgW, imgH)
  IN IF h = {} THEN "none" ELSE ms[SetMax(h)].type

\* the velocity response without the speed cap
VelocityResponseUncapped(hitType, v) ==
  IF hitType = "obstacle"
  THEN [vx |-> TDiv(v.vx * dampingFactor, 100),
        vy |-> TDiv(v.vy * dampingFactor, 100)]
  ELSE [vx |-> TDiv(v.vx * boostFactor, 10),
        vy |-> TDiv(v.vy * boostFactor, 10)]

\* the velocity response with the cap applied to each component on its own
VelocityResponseComponentCap(hitType, v) ==
  IF hitType = "obstacle"
  THEN [vx |-> TDiv(v.vx * dampingFactor, 100),
        vy |-> TDiv(v.vy * dampingFactor, 100)]
  ELSE [vx |-> Max(-maxSpeed, Min(maxSpeed, TDiv(v.vx * boostFactor, 10))),
        vy |-> Max(-maxSpeed, Min(maxSpeed, TDiv(v.vy * boostFactor, 10)))]

\* the velocity a resolved collision of type hitType leaves in velocityRef
VelocityResponse(hitType, v) ==
  LET h == Hypot(v.vx, v.vy)
      \* Math.hypot(vx, vy) || 1
      speed == IF h = 0 THEN 1000 ELSE h
      damped == [vx |-> TDiv(v.vx * dampingFactor, 100),
                 vy |-> TDiv(v.vy * dampingFactor, 100)]
      bx == TDiv(v.vx * boostFactor, 10)
      by == TDiv(v.vy * boostFactor, 10)
      newSpeed == Hypot(bx, by)
      boosted == IF bx * bx + by * by > maxSpeed * maxSpeed
                 THEN [vx |-> TDiv(bx * maxSpeed, newSpeed),
                       vy |-> TDiv(by * maxSpeed, newSpeed)]
                 ELSE [vx |-> bx, vy |-> by]
      scaled == IF hitType = "obstacle" THEN damped ELSE boosted
  IN IF speed = 0 THEN [vx |-> nudge, vy |-> nudge] ELSE scaled

\* handleCollisions(nextX, nextY) on markers ms with velocityRef v:
\* the markers and velocity it leaves and what it reported
handleCollisions(ms, v, nx, ny, img) ==
  IF img.width = 0 \/ img.height = 0
  THEN [markers |-> ms, velocity |-> v, hitType |-> "none", inRange |-> 0,
        firstType |-> "none"]
  ELSE LET h == Hits(ms, nx, ny, img.width, img.height)
           t == HitTypeOf(ms, nx, ny, img.width, img.height)
       IN [markers |-> UpdatedMarkers(ms, nx, ny, img.width, img.height),
           velocity |-> IF t = "none" THEN v ELSE VelocityResponse(t, v),
           hitType |-> t,
           inRange |-> Cardinality(h),
           firstType |-> IF h = {} THEN "none" ELSE ms[SetMin(h)].type]

\* an onMarkerHit without the floor at 0
onMarkerHitNoFloor(type, prev) ==
  IF type = "powerup" THEN prev + hitScore ELSE prev - hitScore

\* an onMarkerHit that takes an obstacle's penalty twice
onMarkerHitDoublePenalty(type, prev) ==
  IF type = "powerup" THEN prev + hitScore
  ELSE Max(0, prev - hitScore - hitScore)

\* onMarkerHit of the App: the score after a hit of the given type
onMarkerHit(type, prev) ==
  IF type = "powerup" THEN prev + hitScore ELSE Max(0, prev - hitScore)

----------------------------------------------------------------------------
(* Bookkeeping of the last operation *)

ZeroVelocity == [vx |-> 0, vy |-> 0]

\* an operation that ran no collision pass
Idle(name) ==
  [name |-> name, stored |-> FALSE, cancelled |-> FALSE, inRange |-> 0,
   deactivated |-> 0, firstType |-> "none", reported |-> "none", calls |-> 0,
   vin |-> ZeroVelocity, vout |-> ZeroVelocity, elapsed |-> 0,
   restarted |-> FALSE, bounced |-> FALSE, vpre |-> ZeroVelocity,
   proj |-> [x |-> 0, y |-> 0]]

\* an operation that stored an offset and ran the pass r from markers ms with
\* velocityRef vin
Pass(name, ms, vin, r) ==
  [name |-> name, stored |-> TRUE, cancelled |-> FALSE,
   inRange |-> r.inRange,
   deactivated |->
     Cardinality({k \in DOMAIN ms : ms[k].active /\ ~r.markers[k].active}),
   firstType |-> r.firstType, reported |-> r.hitType,
   calls |-> IF r.hitType = "none" THEN 0 ELSE 1,
   vin |-> vin, vout |-> r.velocity, elapsed |-> 0,
   restarted |-> (r.hitType # "none" /\ hitTimers # {}), bounced |-> FALSE,
   vpre |-> ZeroVelocity, proj |-> [x |-> 0, y |-> 0]]

----------------------------------------------------------------------------
(* Scheduling primitives *)

\* a handle the host has not handed out among the live ones
Fresh(used) == SetMin(Handles \ used)

Ids(frames) == {f.id : f \in frames}

\* cancelAnimationFrame(ref) / clearTimeout(ref) on a set of pending handles
Cancel(pending, ref) == pending \ {ref}

\* a cancelAnimationFrame that cancels nothing
CancelFrameNone(frames, ref) == frames

CancelFrame(frames, ref) == {f \in frames : f.id # ref}

----------------------------------------------------------------------------
(* Initial state: App rendered, image not ready, canvas not mounted *)

\* the server's store is empty, no request is being handled, App has no
\* image name yet and the arrow points to the right
InitNet ==
  /\ submittedHash = {}
  /\ leaderboard = <<>>
  /\ submitRequests = {}
  /\ queueHash = [k \in QueueFields |-> ""]
  /\ levelHashes = [l \in LevelNames |->
                      [imageUrl |-> "", answer |-> "", celebrityName |-> ""]]
  /\ postJobs = {}
  /\ posts = <<>>
  /\ queuedWith = [l \in LevelNames |-> [answer |-> "", celebrityName |-> ""]]
  /\ arrowRotation = 0
  /\ rawImageUrl = ""
  /\ resolvedImageUrl = ""
  /\ imageLoadError = NoError
  /\ assetFetches = {}
  /\ effectPending = FALSE
  /\ stateUpdates = <<>>

\* everything but velocityRef and offset
InitRest ==
  /\ InitNet
  /\ hitColor = "none"
  /\ edgeHit = FALSE
  /\ zoomSizePercent = null
  /\ markers = InitialMarkers
  /\ hitTimeoutRef = null
  /\ edgeHitTimeoutRef = null
  /\ zoomAnimationRef = null
  /\ initialZoomStateRef = <<>>
  /\ zoomCompletedRef = FALSE
  /\ isDraggingRef = FALSE
  /\ boundsRef = ZeroBounds
  /\ animationRef = null
  /\ imageSizeRef = [width |-> 0, height |-> 0]
  /\ canvasSizeRef = [width |-> 0, height |-> 0]
  /\ mounted = "pending"
  /\ momFrames = {}
  /\ zoomFrames = {}
  /\ hitTimers = {}
  /\ edgeTimers = {}
  /\ score = initialScore
  /\ showGuessUI = FALSE
  /\ isZooming = FALSE
  /\ countdown = null
  /\ countdownStartedRef = FALSE
  /\ clockFrame = FALSE
  /\ budget = MaxEvents
  /\ last = Idle("other")

\* everything but velocityRef
InitOther ==
  /\ offset = [x |-> 0, y |-> 0]
  /\ InitRest

Init ==
  /\ velocityRef = ZeroVelocity
  /\ InitOther

----------------------------------------------------------------------------
(* Bounds Calculator: computeBounds with a measured container width c *)

computeBounds(c) ==
  LET w == ImageWidth(c, zoomSizePercent)
      cr == [width |-> c, height |-> c]
      ir == [width |-> w, height |-> w]
      b == BoundsOf(cr, ir)
  IN /\ canvasSizeRef' = cr
     /\ imageSizeRef' = ir
     /\ boundsRef' = b
     /\ offset' = clampOffset(offset.x, offset.y, b)

\* window resize while the canvas is mounted
Resize(c) ==
  /\ mounted = "mounted"
  /\ budget > 0
  /\ budget' = budget - 1
  /\ computeBounds(c)
  /\ last' = Idle("computeBounds")
  /\ UNCHANGED <<hitColor, edgeHit, zoomSizePercent, markers, hitTimeoutRef,
                 edgeHitTimeoutRef, zoomAnimationRef, initialZoomStateRef,
                 zoomCompletedRef, isDraggingRef, velocityRef, animationRef,
                 mounted, momFrames, zoomFrames, hitTimers, edgeTimers,
                 appVars>>
  /\ UNCHANGED restVars

----------------------------------------------------------------------------
(* App: image ready, countdown, score clock *)

\* a guard of the score clock effect that ignores the countdown
ClockRunsDuringCountdown(started, cd, guessUI, zooming) ==
  started /\ ~guessUI /\ ~zooming

\* the score clock effect's guard: the clock runs iff this holds
ClockRuns(started, cd, guessUI, zooming) ==
  started /\ cd = null /\ ~guessUI /\ ~zooming

\* the image becomes ready: the canvas mounts (mount effect: computeBounds)
\* and the countdown starts at 3
ImageReady(c) ==
  /\ mounted = "pending"
  /\ mounted' = "mounted"
  /\ computeBounds(c)
  /\ countdownStartedRef' = TRUE
  /\ countdown' = 3
  /\ last' = Idle("computeBounds")
  /\ UNCHANGED <<hitColor, edgeHit, zoomSizePercent, markers, hitTimeoutRef,
                 edgeHitTimeoutRef, zoomAnimationRef, initialZoomStateRef,
                 zoomCompletedRef, isDraggingRef, velocityRef, animationRef,
                 momFrames, zoomFrames, hitTimers, edgeTimers,
                 score, showGuessUI, isZooming, clockFrame, budget>>
  /\ UNCHANGED restVars

\* the 1 s countdown timer fires: 3 -> 2 -> 1 -> null; at null the score
\* clock effect schedules its first frame
CountdownTick ==
  /\ countdown # null
  /\ countdown > 0
  /\ countdown' = IF countdown > 1 THEN countdown - 1 ELSE null
  /\ clockFrame' = ClockRuns(countdownStartedRef, countdown', showGuessUI,
                             isZooming)
  /\ last' = Idle("other")
  /\ UNCHANGED <<canvasVars, score, showGuessUI, isZooming,
                 countdownStartedRef, budget>>
  /\ UNCHANGED restVars

\* one frame of the score clock, dt ms after the previous one
ClockTick(dt) ==
  /\ clockFrame
  /\ budget > 0
  /\ budget' = budget - 1
  /\ score' = IF score <= 0 THEN 0
              ELSE IF score - dt > 0 THEN score - dt ELSE 0
  /\ last' = Idle("tick")
  /\ UNCHANGED <<canvasVars, showGuessUI, isZooming, countdown,
                 countdownStartedRef, clockFrame>>
  /\ UNCHANGED restVars

----------------------------------------------------------------------------
(* Collision feedback *)

\* a triggerHitGlow that starts a timer without clearing the pending one
triggerHitGlowStacking(type) ==
  LET h == Fresh(hitTimers)
  IN /\ hitColor' = IF type = "obstacle" THEN "red" ELSE "blue"
     /\ hitTimers' = hitTimers \cup {h}
     /\ hitTimeoutRef' = h

\* a triggerHitGlow that clears the pending timer and starts none
triggerHitGlowNoTimer(type) ==
  /\ hitColor' = IF type = "obstacle" THEN "red" ELSE "blue"
  /\ hitTimers' = Cancel(hitTimers, hitTimeoutRef)
  /\ hitTimeoutRef' = null

\* triggerHitGlow(type): set the glow colour and restart its 1000 ms timer
triggerHitGlow(type) ==
  LET h == Fresh(Cancel(hitTimers, hitTimeoutRef))
  IN /\ hitColor' = IF type = "obstacle" THEN "red" ELSE "blue"
     /\ hitTimers' = Cancel(hitTimers, hitTimeoutRef) \cup {h}
     /\ hitTimeoutRef' = h

\* what a collision pass that reported hitType does besides the velocity
HitFeedback(hitType) ==
  IF hitType = "none"
  THEN UNCHANGED <<hitColor, hitTimers, hitTimeoutRef, score>>
  ELSE /\ triggerHitGlow(hitType)
       /\ score' = onMarkerHit(hitType, score)

\* the glow timer fires: setHitColor('none') (a no-op once unmounted)
HitTimerFires(h) ==
  /\ h \in hitTimers
  /\ hitTimers' = hitTimers \ {h}
  /\ hitColor' = IF mounted = "mounted" THEN "none" ELSE hitColor
  /\ last' = Idle("other")
  /\ UNCHANGED <<offset, edgeHit, zoomSizePercent, markers, hitTimeoutRef,
                 edgeHitTimeoutRef, zoomAnimationRef, initialZoomStateRef,
                 zoomCompletedRef, isDraggingRef, velocityRef, boundsRef,
                 animationRef, imageSizeRef, canvasSizeRef, mounted,
                 momFrames, zoomFrames, edgeTimers, appVars, budget>>
  /\ UNCHANGED restVars

\* the edge-hit timer fires: setEdgeHit(false)
EdgeTimerFires(h) ==
  /\ h \in edgeTimers
  /\ edgeTimers' = edgeTimers \ {h}
  /\ edgeHit' = IF mounted = "mounted" THEN FALSE ELSE edgeHit
  /\ last' = Idle("other")
  /\ UNCHANGED <<offset, hitColor, zoomSizePercent, markers, hitTimeoutRef,
                 edgeHitTimeoutRef, zoomAnimationRef, initialZoomStateRef,
                 zoomCompletedRef, isDraggingRef, velocityRef, boundsRef,
                 animationRef, imageSizeRef, canvasSizeRef, mounted,
                 momFrames, zoomFrames, hitTimers, appVars, budget>>
  /\ UNCHANGED restVars

----------------------------------------------------------------------------
(* Input Tracker *)

\* the pointer handlers are attached only while isZooming is false; a press
\* reaches the canvas only when no overlay (countdown, guess UI) covers it
handlePointerDown ==
  /\ mounted = "mounted"
  /\ ~isZooming
  /\ countdown = null
  /\ ~showGuessUI
  /\ isDraggingRef' = TRUE
  /\ velocityRef' = ZeroVelocity
  /\ momFrames' = IF animationRef # null
                  THEN CancelFrame(momFrames, animationRef) ELSE momFrames
  /\ animationRef' = null
  /\ last' = [Idle("handlePointerDown") EXCEPT
                !.cancelled = (animationRef \in Ids(momFrames))]
  /\ UNCHANGED <<offset, hitColor, edgeHit, zoomSizePercent, markers,
                 hitTimeoutRef, edgeHitTimeoutRef, zoomAnimationRef,
                 initialZoomStateRef, zoomCompletedRef, boundsRef,
                 imageSizeRef, canvasSizeRef, mounted, zoomFrames, hitTimers,
                 edgeTimers, appVars, budget>>
  /\ UNCHANGED restVars

\* velocity estimate of a drag-move: delta / (elapsed || 16), in 1/1000 px/ms
DragVelocity(d, dt) ==
  LET el == IF dt = 0 THEN 16 ELSE dt
  IN [vx |-> TDiv(d[1] * 1000, el), vy |-> TDiv(d[2] * 1000, el)]

\* a drag-move by d px, dt ms after the last sample.  The setOffset updater
\* runs either inside the call (eager: before the velocity is assigned) or at
\* the next render (after it)
handlePointerMove(d, dt, eager) ==
  /\ mounted = "mounted"
  /\ ~isZooming
  /\ isDraggingRef
  /\ budget > 0
  /\ budget' = budget - 1
  /\ LET next == clampOffset(offset.x + d[1], offset.y + d[2], boundsRef)
         vin == IF eager THEN velocityRef ELSE DragVelocity(d, dt)
         r == handleCollisions(markers, vin, next.x, next.y, imageSizeRef)
     IN /\ offset' = next
        /\ markers' = r.markers
        /\ HitFeedback(r.hitType)
        /\ velocityRef' = IF eager THEN DragVelocity(d, dt) ELSE r.velocity
        /\ last' = Pass("handlePointerMove", markers, vin, r)
  /\ UNCHANGED <<edgeHit, zoomSizePercent, edgeHitTimeoutRef,
                 zoomAnimationRef, initialZoomStateRef, zoomCompletedRef,
                 isDraggingRef, boundsRef, animationRef, imageSizeRef,
                 canvasSizeRef, mounted, momFrames, zoomFrames, edgeTimers,
                 showGuessUI, isZooming, countdown, countdownStartedRef,
                 clockFrame>>
  /\ UNCHANGED restVars

\* an arrow that follows the velocity without the threshold
ArrowAfterReleaseAlways(v, prev) == Atan2Deg(v.vy, v.vx) + 180

\* the arrow rotation startMomentum leaves: the fling direction plus 180
\* degrees when a component of the release velocity exceeds 0.01 px/ms
ArrowAfterRelease(v, prev) ==
  IF Abs(v.vx) > stopEpsilon \/ Abs(v.vy) > stopEpsilon
  THEN Atan2Deg(v.vy, v.vx) + 180
  ELSE prev

\* startMomentum: set the arrow, cancel the live frame, schedule the first
\* step.  The step closure keeps the edgeHit of the render that created it
startMomentum ==
  LET kept == IF animationRef # null
              THEN CancelFrame(momFrames, animationRef) ELSE momFrames
      h == Fresh(Ids(kept))
  IN /\ arrowRotation' = ArrowAfterRelease(velocityRef, arrowRotation)
     /\ momFrames' = kept \cup {[id |-> h, first |-> TRUE, edge |-> edgeHit]}
     /\ animationRef' = h

\* pointer up / pointer leave while dragging
endDrag ==
  /\ mounted = "mounted"
  /\ ~isZooming
  /\ isDraggingRef
  /\ isDraggingRef' = FALSE
  /\ startMomentum
  /\ last' = [Idle("endDrag") EXCEPT
                !.cancelled = (animationRef \in Ids(momFrames))]
  /\ UNCHANGED <<offset, hitColor, edgeHit, zoomSizePercent, markers,
                 hitTimeoutRef, edgeHitTimeoutRef, zoomAnimationRef,
                 initialZoomStateRef, zoomCompletedRef, velocityRef,
                 boundsRef, imageSizeRef, canvasSizeRef, mounted, zoomFrames,
                 hitTimers, edgeTimers, appVars, budget>>
  /\ UNCHANGED netVars

\* a press handled although isZooming is true
PointerWhileZoomingHandled ==
  /\ mounted = "mounted"
  /\ isZooming
  /\ isDraggingRef' = TRUE
  /\ velocityRef' = ZeroVelocity
  /\ momFrames' = IF animationRef # null
                  THEN CancelFrame(momFrames, animationRef) ELSE momFrames
  /\ animationRef' = null
  /\ last' = Idle("pointerIgnored")
  /\ UNCHANGED <<offset, hitColor, edgeHit, zoomSizePercent, markers,
                 hitTimeoutRef, edgeHitTimeoutRef, zoomAnimationRef,
                 initialZoomStateRef, zoomCompletedRef, boundsRef,
                 imageSizeRef, canvasSizeRef, mounted, zoomFrames, hitTimers,
                 edgeTimers, appVars, budget>>
  /\ UNCHANGED restVars

\* a pointer down, move, up or leave event while isZooming is true: the
\* container has no handler for it
PointerWhileZooming ==
  /\ mounted = "mounted"
  /\ isZooming
  /\ last' = Idle("pointerIgnored")
  /\ UNCHANGED <<canvasVars, appVars, budget>>
  /\ UNCHANGED restVars

----------------------------------------------------------------------------
(* Momentum Integrator *)

\* a bounce that clamps the position and keeps the velocity
BounceNoReflect(pos, v, softMin, softMax) ==
  IF pos > softMax THEN [pos |-> softMax, v |-> v, hit |-> TRUE]
  ELSE IF pos < softMin THEN [pos |-> softMin, v |-> v, hit |-> TRUE]
  ELSE [pos |-> pos, v |-> v, hit |-> FALSE]

\* one axis of the soft-bound bounce: the position, the velocity and whether
\* the edge was hit
Bounce(pos, v, softMin, softMax) ==
  IF pos > softMax
  THEN [pos |-> softMax, v |-> TDiv(-v * bounceDamping, 10), hit |-> TRUE]
  ELSE IF pos < softMin
       THEN [pos |-> softMin, v |-> TDiv(-v * bounceDamping, 10), hit |-> TRUE]
       ELSE [pos |-> pos, v |-> v, hit |-> FALSE]

\* a velocity that friction leaves alone
DecayedNever(v, dt) == v

\* v * Math.exp(-friction * dt)
Decayed(v, dt) ==
  [vx |-> TDiv(v.vx * Decay(dt), 10000), vy |-> TDiv(v.vy * Decay(dt), 10000)]

\* a stop test that never stops
BelowEpsilonNever(v) == FALSE

\* the step's early return: both components below the epsilon
BelowEpsilon(v) == Abs(v.vx) < stopEpsilon /\ Abs(v.vy) < stopEpsilon

\* setEdgeHit(true) and restart of the 200 ms timer, skipped when the
\* closure's edgeHit is true
EdgeFeedback(hit, closureEdgeHit) ==
  IF hit /\ ~closureEdgeHit
  THEN LET h == Fresh(Cancel(edgeTimers, edgeHitTimeoutRef))
       IN /\ edgeHit' = TRUE
          /\ edgeTimers' = Cancel(edgeTimers, edgeHitTimeoutRef) \cup {h}
          /\ edgeHitTimeoutRef' = h
  ELSE UNCHANGED <<edgeHit, edgeTimers, edgeHitTimeoutRef>>

\* the frame callback f of the momentum loop fires, dt ms after the previous
\* step (the first step of a loop measures no elapsed time).  The setOffset
\* updater runs either inside the call (eager: with the undecayed velocity,
\* before the decayed velocity is written back) or at the next render (with
\* the closure's velocity already decayed, after the write-back)
step(f, dt, eager) ==
  /\ f \in momFrames
  /\ dt = 0 <=> f.first
  /\ IF BelowEpsilon(velocityRef)
     THEN /\ animationRef' = null
          /\ momFrames' = momFrames \ {f}
          /\ last' = Idle("step")
          /\ UNCHANGED <<offset, markers, velocityRef, edgeHit, edgeTimers,
                         edgeHitTimeoutRef, hitColor, hitTimers,
                         hitTimeoutRef, score, budget>>
     ELSE LET v == IF eager THEN velocityRef ELSE Decayed(velocityRef, dt)
              bx == Bounce(offset.x + TDiv(v.vx * dt, 1000), v.vx,
                           boundsRef.softMinX, boundsRef.softMaxX)
              by == Bounce(offset.y + TDiv(v.vy * dt, 1000), v.vy,
                           boundsRef.softMinY, boundsRef.softMaxY)
              next == [x |-> Min(Max(bx.pos, boundsRef.hardMinX),
                                 boundsRef.hardMaxX),
                       y |-> Min(Max(by.pos, boundsRef.hardMinY),
                                 boundsRef.hardMaxY)]
              vb == [vx |-> bx.v, vy |-> by.v]
              r == handleCollisions(markers, vb, next.x, next.y, imageSizeRef)
              rest == momFrames \ {f}
              h == Fresh(Ids(rest))
          IN /\ budget > 0
             /\ budget' = budget - 1
             /\ offset' = next
             /\ markers' = r.markers
             /\ HitFeedback(r.hitType)
             /\ EdgeFeedback(bx.hit \/ by.hit, f.edge)
             /\ velocityRef' = IF eager THEN Decayed(vb, dt) ELSE r.velocity
             /\ momFrames' = rest \cup {[id |-> h, first |-> FALSE,
                                         edge |-> f.edge]}
             /\ animationRef' = h
             /\ last' = [Pass("step", markers, vb, r) EXCEPT
                           !.bounced = bx.hit \/ by.hit,
                           !.elapsed = dt,
                           !.vpre = v,
                           !.proj = [x |-> offset.x + TDiv(v.vx * dt, 1000),
                                     y |-> offset.y + TDiv(v.vy * dt, 1000)],
                           !.restarted =
                             @ \/ /\ bx.hit \/ by.hit
                                  /\ ~f.edge
                                  /\ edgeTimers # {}]
  /\ UNCHANGED <<zoomSizePercent, zoomAnimationRef, initialZoomStateRef,
                 zoomCompletedRef, isDraggingRef, boundsRef, imageSizeRef,
                 canvasSizeRef, mounted, zoomFrames, showGuessUI, isZooming,
                 countdown, countdownStartedRef, clockFrame>>
  /\ UNCHANGED restVars

----------------------------------------------------------------------------
(* Zoom Animator *)

\* a cleanup that drops the handle without cancelling the frame
zoomEffectCleanupNoCancel(frames, ref) == [frames |-> frames, ref |-> null]

\* cleanup of the zoom effect: cancel the live frame and drop the handle
zoomEffectCleanup(frames, ref) ==
  IF ref # null
  THEN [frames |-> CancelFrame(frames, ref), ref |-> null]
  ELSE [frames |-> frames, ref |-> ref]

\* the interpolation without the clamp of the progress at 1
EasedUnclamped(start, end, el) ==
  LET rem == duration - el
      g == GCD(Abs(rem), duration)
      n == rem \div g
      m == duration \div g
  IN end + TDiv((start - end) * n * n * n, m * m * m)

\* the interpolation mirrored about the end value
EasedMirrored(start, end, el) ==
  LET rem == Max(duration - el, 0)
      g == GCD(rem, duration)
      n == rem \div g
      m == duration \div g
  IN end - TDiv((start - end) * n * n * n, m * m * m)

\* value interpolated from start to end at elapsed time el with the
\* ease-out-cubic curve: end + (start - end) * (1 - progress)^3
Eased(start, end, el) ==
  LET rem == Max(duration - el, 0)
      g == GCD(rem, duration)
      n == rem \div g
      m == duration \div g
  IN end + TDiv((start - end) * n * n * n, m * m * m)

\* an animate that drops the snapshot at every frame
animateDropsSnapshot(f, dt) ==
  /\ f \in zoomFrames
  /\ LET el == f.el + dt
         rest == zoomFrames \ {f}
         h == Fresh(Ids(rest))
     IN /\ offset' = [x |-> Eased(f.sx, 0, el), y |-> Eased(f.sy, 0, el)]
        /\ IF el < duration
           THEN /\ zoomSizePercent' = Eased(f.size, endSizePercent, el)
                /\ zoomFrames' = rest \cup {[f EXCEPT !.id = h, !.el = el]}
                /\ zoomAnimationRef' = h
                /\ initialZoomStateRef' = <<>>
                /\ UNCHANGED zoomCompletedRef
           ELSE /\ zoomSizePercent' = endSizePercent
                /\ zoomFrames' = rest
                /\ zoomAnimationRef' = null
                /\ initialZoomStateRef' = <<>>
                /\ zoomCompletedRef' = TRUE
        /\ last' = [Idle("animate") EXCEPT !.elapsed = el]
  /\ UNCHANGED <<hitColor, edgeHit, markers, hitTimeoutRef,
                 edgeHitTimeoutRef, isDraggingRef, velocityRef, boundsRef,
                 animationRef, imageSizeRef, canvasSizeRef, mounted,
                 momFrames, hitTimers, edgeTimers, appVars, budget>>
  /\ UNCHANGED restVars

\* the frame callback f of the zoom animation fires, dt ms after the
\* previous one
animate(f, dt) ==
  /\ f \in zoomFrames
  /\ LET el == f.el + dt
         rest == zoomFrames \ {f}
         h == Fresh(Ids(rest))
     IN /\ offset' = [x |-> Eased(f.sx, 0, el), y |-> Eased(f.sy, 0, el)]
        /\ IF el < duration
           THEN /\ zoomSizePercent' = Eased(f.size, endSizePercent, el)
                /\ zoomFrames' = rest \cup {[f EXCEPT !.id = h, !.el = el]}
                /\ zoomAnimationRef' = h
                /\ UNCHANGED <<initialZoomStateRef, zoomCompletedRef>>
           ELSE /\ zoomSizePercent' = endSizePercent
                /\ zoomFrames' = rest
                /\ zoomAnimationRef' = null
                /\ initialZoomStateRef' = <<>>
                /\ zoomCompletedRef' = TRUE
        /\ last' = [Idle("animate") EXCEPT !.elapsed = el]
  /\ UNCHANGED <<hitColor, edgeHit, markers, hitTimeoutRef,
                 edgeHitTimeoutRef, isDraggingRef, velocityRef, boundsRef,
                 animationRef, imageSizeRef, canvasSizeRef, mounted,
                 momFrames, hitTimers, edgeTimers, appVars, budget>>
  /\ UNCHANGED restVars

\* the player presses Guess!: the guess UI shows, the score clock effect is
\* cleaned up
handleGuessButtonClick ==
  /\ mounted = "mounted"
  /\ countdown = null
  /\ ~showGuessUI
  /\ ~isZooming
  /\ ~isDraggingRef
  /\ showGuessUI' = TRUE
  /\ clockFrame' = ClockRuns(countdownStartedRef, countdown, TRUE, isZooming)
  /\ last' = Idle("other")
  /\ UNCHANGED <<canvasVars, score, isZooming, countdown,
                 countdownStartedRef, budget>>
  /\ UNCHANGED restVars

\* the player picks Delulu or Celulu: isZooming turns on and the zoom effect
\* runs (snapshot, first frame)
handleGuess ==
  /\ mounted = "mounted"
  /\ showGuessUI
  /\ ~isZooming
  /\ showGuessUI' = FALSE
  /\ isZooming' = TRUE
  /\ clockFrame' = ClockRuns(countdownStartedRef, countdown, FALSE, TRUE)
  /\ zoomCompletedRef' = FALSE
  /\ initialZoomStateRef' =
       IF initialZoomStateRef = <<>>
       THEN << [offset |-> offset, sizePercent |-> ZOOM_PERCENT] >>
       ELSE initialZoomStateRef
  /\ zoomSizePercent' =
       IF initialZoomStateRef = <<>> THEN ZOOM_PERCENT ELSE zoomSizePercent
  /\ LET h == Fresh(Ids(zoomFrames))
         s == initialZoomStateRef'[1]
     IN /\ zoomFrames' = zoomFrames \cup
             {[id |-> h, sx |-> s.offset.x, sy |-> s.offset.y,
               size |-> s.sizePercent, el |-> 0]}
        /\ zoomAnimationRef' = h
  /\ last' = Idle("other")
  /\ UNCHANGED <<offset, hitColor, edgeHit, markers, hitTimeoutRef,
                 edgeHitTimeoutRef, isDraggingRef, velocityRef, boundsRef,
                 animationRef, imageSizeRef, canvasSizeRef, mounted,
                 momFrames, hitTimers, edgeTimers, score, countdown,
                 countdownStartedRef, budget>>
  /\ UNCHANGED restVars

\* a zoomOff that resets the size whether or not the zoom has completed
zoomOffResets ==
  /\ mounted = "mounted"
  /\ isZooming
  /\ budget > 0
  /\ budget' = budget - 1
  /\ isZooming' = FALSE
  /\ LET c == zoomEffectCleanup(zoomFrames, zoomAnimationRef)
     IN /\ zoomFrames' = c.frames
        /\ zoomAnimationRef' = c.ref
        /\ last' = [Idle("zoomOff") EXCEPT
                      !.cancelled = (c.frames # zoomFrames)]
  /\ initialZoomStateRef' = <<>>
  /\ zoomSizePercent' = null
  /\ UNCHANGED <<offset, hitColor, edgeHit, markers, hitTimeoutRef,
                 edgeHitTimeoutRef, zoomCompletedRef, isDraggingRef,
                 velocityRef, boundsRef, animationRef, imageSizeRef,
                 canvasSizeRef, mounted, momFrames, hitTimers, edgeTimers,
                 score, showGuessUI, countdown, countdownStartedRef,
                 clockFrame>>
  /\ UNCHANGED restVars

\* the isZooming prop turns off: the zoom effect's cleanup, then its body
zoomOff ==
  /\ mounted = "mounted"
  /\ isZooming
  /\ budget > 0
  /\ budget' = budget - 1
  /\ isZooming' = FALSE
  /\ LET c == zoomEffectCleanup(zoomFrames, zoomAnimationRef)
     IN /\ zoomFrames' = c.frames
        /\ zoomAnimationRef' = c.ref
        /\ last' = [Idle("zoomOff") EXCEPT
                      !.cancelled = (c.frames # zoomFrames)]
  /\ initialZoomStateRef' = <<>>
  /\ zoomSizePercent' = IF zoomCompletedRef THEN zoomSizePercent ELSE null
  /\ UNCHANGED <<offset, hitColor, edgeHit, markers, hitTimeoutRef,
                 edgeHitTimeoutRef, zoomCompletedRef, isDraggingRef,
                 velocityRef, boundsRef, animationRef, imageSizeRef,
                 canvasSizeRef, mounted, momFrames, hitTimers, edgeTimers,
                 score, showGuessUI, countdown, countdownStartedRef,
                 clockFrame>>
  /\ UNCHANGED restVars

----------------------------------------------------------------------------
(* Unmount *)

\* the canvas unmounts: the zoom effect's cleanup and the mount effect's
\* cleanup run, nothing else
unmount ==
  /\ mounted = "mounted"
  /\ mounted' = "unmounted"
  /\ momFrames' = IF animationRef # null
                  THEN CancelFrame(momFrames, animationRef) ELSE momFrames
  /\ LET c == IF isZooming
              THEN zoomEffectCleanup(zoomFrames, zoomAnimationRef)
              ELSE [frames |-> zoomFrames, ref |-> zoomAnimationRef]
     IN /\ zoomFrames' = IF c.ref # null
                         THEN CancelFrame(c.frames, c.ref) ELSE c.frames
        /\ zoomAnimationRef' = c.ref
  /\ last' = Idle("other")
  /\ UNCHANGED <<offset, hitColor, edgeHit, zoomSizePercent, markers,
                 hitTimeoutRef, edgeHitTimeoutRef, initialZoomStateRef,
                 zoomCompletedRef, isDraggingRef, velocityRef, boundsRef,
                 animationRef, imageSizeRef, canvasSizeRef, hitTimers,
                 edgeTimers, appVars, budget>>
  /\ UNCHANGED restVars

----------------------------------------------------------------------------
(* Specification *)

Next ==
  \/ \E c \in ContainerSizes : ImageReady(c)
  \/ \E c \in ContainerSizes : Resize(c)
  \/ CountdownTick
  \/ \E dt \in ClockDts : ClockTick(dt)
  \/ handlePointerDown
  \/ \E d \in DragDeltas, dt \in DragDts, eager \in BOOLEAN :
       handlePointerMove(d, dt, eager)
  \/ endDrag
  \/ PointerWhileZooming
  \/ \E f \in momFrames, dt \in FrameDts \cup {0}, eager \in BOOLEAN :
       step(f, dt, eager)
  \/ \E h \in Handles : HitTimerFires(h)
  \/ \E h \in Handles : EdgeTimerFires(h)
  \/ handleGuessButtonClick
  \/ handleGuess
  \/ \E f \in zoomFrames, dt \in ZoomDts : animate(f, dt)
  \/ zoomOff
  \/ unmount

Spec == Init /\ [][Next]_vars

----------------------------------------------------------------------------
(* The collision velocity response taken alone: a collision of either type
   resolved with any stored velocity *)

InitResponse ==
  /\ velocityRef \in [vx : VelocityInputs, vy : VelocityInputs]
  /\ InitOther

\* the velocity part of handleCollisions when hitType is type
Collide(type) ==
  /\ last.reported = "none"
  /\ velocityRef' = VelocityResponse(type, velocityRef)
  /\ last' = [Idle("collide") EXCEPT !.reported = type, !.calls = 1,
                                     !.vin = velocityRef,
                                     !.vout = velocityRef']
  /\ UNCHANGED <<offset, hitColor, edgeHit, zoomSizePercent, markers,
                 hitTimeoutRef, edgeHitTimeoutRef, zoomAnimationRef,
                 initialZoomStateRef, zoomCompletedRef, isDraggingRef,
                 boundsRef, animationRef, imageSizeRef, canvasSizeRef,
                 mounted, momFrames, zoomFrames, hitTimers, edgeTimers,
                 appVars, budget>>
  /\ UNCHANGED restVars

NextResponse == \E type \in {"obstacle", "powerup"} : Collide(type)

SpecResponse == InitResponse /\ [][NextResponse]_vars

----------------------------------------------------------------------------
(* Bounds Calculator alone: computeBounds on measured rectangles, from any
   offset *)

InitBounds ==
  /\ offset \in [x : PriorOffsets, y : PriorOffsets]
  /\ velocityRef = ZeroVelocity
  /\ InitRest

\* computeBounds with the container measuring c and the image measuring i
MeasureBounds(c, i) ==
  /\ canvasSizeRef' = c
  /\ imageSizeRef' = i
  /\ boundsRef' = BoundsOf(c, i)
  /\ offset' = clampOffset(offset.x, offset.y, BoundsOf(c, i))
  /\ last' = Idle("computeBounds")
  /\ UNCHANGED <<hitColor, edgeHit, zoomSizePercent, markers, hitTimeoutRef,
                 edgeHitTimeoutRef, zoomAnimationRef, initialZoomStateRef,
                 zoomCompletedRef, isDraggingRef, velocityRef, animationRef,
                 mounted, momFrames, zoomFrames, hitTimers, edgeTimers,
                 appVars, budget>>
  /\ UNCHANGED restVars

NextBounds ==
  \E c \in [width : MeasuredContainer, height : MeasuredContainer],
     i \in [width : MeasuredImage, height : MeasuredImage] :
    MeasureBounds(c, i)

SpecBounds == InitBounds /\ [][NextBounds]_vars

----------------------------------------------------------------------------
(* Zoom Animator alone: the frames of one animation, from the state the zoom
   effect leaves when isZooming turns on with a resting canvas *)

InitZoom ==
  /\ InitNet
  /\ offset \in [x : SnapshotXs, y : SnapshotYs]
  /\ hitColor = "none"
  /\ edgeHit = FALSE
  /\ zoomSizePercent = ZOOM_PERCENT
  /\ markers = InitialMarkers
  /\ hitTimeoutRef = null
  /\ edgeHitTimeoutRef = null
  /\ zoomAnimationRef = 1
  /\ initialZoomStateRef =
       << [offset |-> offset, sizePercent |-> ZOOM_PERCENT] >>
  /\ zoomCompletedRef = FALSE
  /\ isDraggingRef = FALSE
  /\ velocityRef = ZeroVelocity
  /\ canvasSizeRef = [width |-> 50, height |-> 50]
  /\ imageSizeRef = [width |-> ImageWidth(50, null),
                     height |-> ImageWidth(50, null)]
  /\ boundsRef = BoundsOf(canvasSizeRef, imageSizeRef)
  /\ animationRef = null
  /\ mounted = "mounted"
  /\ momFrames = {}
  /\ zoomFrames = {[id |-> 1, sx |-> offset.x, sy |-> offset.y,
                    size |-> ZOOM_PERCENT, el |-> 0]}
  /\ hitTimers = {}
  /\ edgeTimers = {}
  /\ score = initialScore
  /\ showGuessUI = FALSE
  /\ isZooming = TRUE
  /\ countdown = null
  /\ countdownStartedRef = TRUE
  /\ clockFrame = FALSE
  /\ budget = MaxEvents
  /\ last = Idle("other")

NextZoom == \E f \in zoomFrames, dt \in ZoomSampleDts : animate(f, dt)

SpecZoom == InitZoom /\ [][NextZoom]_vars

----------------------------------------------------------------------------
(* Transient flags alone: the glow and edge-hit feedback under any sequence
   of reported hits, edge bounces and timer expiries, from a mounted canvas
   whose countdown has ended *)

InitFeedback ==
  /\ InitNet
  /\ offset = [x |-> 0, y |-> 0]
  /\ hitColor = "none"
  /\ edgeHit = FALSE
  /\ zoomSizePercent = null
  /\ markers = InitialMarkers
  /\ hitTimeoutRef = null
  /\ edgeHitTimeoutRef = null
  /\ zoomAnimationRef = null
  /\ initialZoomStateRef = <<>>
  /\ zoomCompletedRef = FALSE
  /\ isDraggingRef = FALSE
  /\ velocityRef = ZeroVelocity
  /\ canvasSizeRef = [width |-> 50, height |-> 50]
  /\ imageSizeRef = [width |-> ImageWidth(50, null),
                     height |-> ImageWidth(50, null)]
  /\ boundsRef = BoundsOf(canvasSizeRef, imageSizeRef)
  /\ animationRef = null
  /\ mounted = "mounted"
  /\ momFrames = {}
  /\ zoomFrames = {}
  /\ hitTimers = {}
  /\ edgeTimers = {}
  /\ score = initialScore
  /\ showGuessUI = FALSE
  /\ isZooming = FALSE
  /\ countdown = null
  /\ countdownStartedRef = TRUE
  /\ clockFrame = TRUE
  /\ budget = MaxFeedback
  /\ last = Idle("other")

\* a collision pass reports a hit of the given type
GlowHit(type) ==
  /\ budget > 0
  /\ budget' = budget - 1
  /\ HitFeedback(type)
  /\ last' = [Idle("glow") EXCEPT !.reported = type, !.calls = 1,
                                  !.restarted = (hitTimers # {})]
  /\ UNCHANGED <<offset, edgeHit, zoomSizePercent, markers,
                 edgeHitTimeoutRef, zoomAnimationRef, initialZoomStateRef,
                 zoomCompletedRef, isDraggingRef, velocityRef, boundsRef,
                 animationRef, imageSizeRef, canvasSizeRef, mounted,
                 momFrames, zoomFrames, edgeTimers, showGuessUI, isZooming,
                 countdown, countdownStartedRef, clockFrame>>
  /\ UNCHANGED restVars

\* a momentum step bounces at a soft bound; closureEdgeHit is the edgeHit of
\* the render that created the step
EdgeBounce(closureEdgeHit) ==
  /\ budget > 0
  /\ budget' = budget - 1
  /\ EdgeFeedback(TRUE, closureEdgeHit)
  /\ last' = [Idle("edge") EXCEPT
                !.bounced = TRUE,
                !.restarted = (~closureEdgeHit /\ edgeTimers # {})]
  /\ UNCHANGED <<offset, hitColor, zoomSizePercent, markers, hitTimeoutRef,
                 zoomAnimationRef, initialZoomStateRef, zoomCompletedRef,
                 isDraggingRef, velocityRef, boundsRef, animationRef,
                 imageSizeRef, canvasSizeRef, mounted, momFrames, zoomFrames,
                 hitTimers, appVars>>
  /\ UNCHANGED restVars

NextFeedback ==
  \/ \E type \in {"obstacle", "powerup"} : GlowHit(type)
  \/ \E closureEdgeHit \in BOOLEAN : EdgeBounce(closureEdgeHit)
  \/ \E h \in Handles : HitTimerFires(h)
  \/ \E h \in Handles : EdgeTimerFires(h)

SpecFeedback == InitFeedback /\ [][NextFeedback]_vars

\* a pending timer fires once its delay has passed: weak fairness of each
\* timer callback, which can fire whenever its timer is pending
SpecFeedbackFair ==
  /\ InitFeedback
  /\ [][NextFeedback]_vars
  /\ \/ []<>(hitTimers = {})
     \/ []<><<\E h \in Handles : HitTimerFires(h)>>_vars
  /\ \/ []<>(edgeTimers = {})
     \/ []<><<\E h \in Handles : EdgeTimerFires(h)>>_vars

----------------------------------------------------------------------------
(* Marker generator alone: the initializer of the markers state, one loop
   iteration per step; budget holds the attempts left *)

InitMarkers ==
  /\ InitNet
  /\ offset = [x |-> 0, y |-> 0]
  /\ velocityRef = ZeroVelocity
  /\ hitColor = "none"
  /\ edgeHit = FALSE
  /\ zoomSizePercent = null
  /\ markers = <<>>
  /\ hitTimeoutRef = null
  /\ edgeHitTimeoutRef = null
  /\ zoomAnimationRef = null
  /\ initialZoomStateRef = <<>>
  /\ zoomCompletedRef = FALSE
  /\ isDraggingRef = FALSE
  /\ boundsRef = ZeroBounds
  /\ animationRef = null
  /\ imageSizeRef = [width |-> 0, height |-> 0]
  /\ canvasSizeRef = [width |-> 0, height |-> 0]
  /\ mounted = "pending"
  /\ momFrames = {}
  /\ zoomFrames = {}
  /\ hitTimers = {}
  /\ edgeTimers = {}
  /\ score = initialScore
  /\ showGuessUI = FALSE
  /\ isZooming = FALSE
  /\ countdown = null
  /\ countdownStartedRef = FALSE
  /\ clockFrame = FALSE
  /\ budget = MaxAttempts
  /\ last = Idle("other")

\* the loop condition: items.length < count && attempts < 3000
GeneratorLoops == Len(markers) < MaxMarkers /\ budget > 0

\* an iteration that does not count a rejected candidate as an attempt
CandidateUncounted(p) ==
  /\ last.name # "return"
  /\ GeneratorLoops
  /\ IF isFarEnough(p[1], p[2], markers)
     THEN /\ markers' = Append(markers, Marker(Len(markers), p[1], p[2]))
          /\ budget' = budget - 1
     ELSE UNCHANGED <<markers, budget>>
  /\ last' = [Idle("candidate") EXCEPT
                !.stored = isFarEnough(p[1], p[2], markers)]
  /\ UNCHANGED <<offset, hitColor, edgeHit, zoomSizePercent, hitTimeoutRef,
                 edgeHitTimeoutRef, zoomAnimationRef, initialZoomStateRef,
                 zoomCompletedRef, isDraggingRef, velocityRef, boundsRef,
                 animationRef, imageSizeRef, canvasSizeRef, mounted,
                 momFrames, zoomFrames, hitTimers, edgeTimers, appVars>>
  /\ UNCHANGED restVars

\* one iteration of the loop with the random candidate p
Candidate(p) ==
  /\ last.name # "return"
  /\ GeneratorLoops
  /\ budget' = budget - 1
  /\ markers' = IF isFarEnough(p[1], p[2], markers)
                THEN Append(markers, Marker(Len(markers), p[1], p[2]))
                ELSE markers
  /\ last' = [Idle("candidate") EXCEPT
                !.stored = isFarEnough(p[1], p[2], markers)]
  /\ UNCHANGED <<offset, hitColor, edgeHit, zoomSizePercent, hitTimeoutRef,
                 edgeHitTimeoutRef, zoomAnimationRef, initialZoomStateRef,
                 zoomCompletedRef, isDraggingRef, velocityRef, boundsRef,
                 animationRef, imageSizeRef, canvasSizeRef, mounted,
                 momFrames, zoomFrames, hitTimers, edgeTimers, appVars>>
  /\ UNCHANGED restVars

\* the loop ends and the initializer returns items
ReturnItems ==
  /\ last.name # "return"
  /\ ~GeneratorLoops
  /\ last' = Idle("return")
  /\ UNCHANGED <<canvasVars, appVars, budget>>
  /\ UNCHANGED restVars

NextMarkers ==
  \/ \E p \in Candidates : Candidate(p)
  \/ ReturnItems

SpecMarkers == InitMarkers /\ [][NextMarkers]_vars

----------------------------------------------------------------------------
(* Drags and momentum near an image edge: a mounted canvas whose countdown
   has ended, at rest 5 px inside the left or the top soft bound *)

InitBounce ==
  /\ InitNet
  /\ \E o \in RestOffsets : offset = [x |-> o[1], y |-> o[2]]
  /\ hitColor = "none"
  /\ edgeHit = FALSE
  /\ zoomSizePercent = null
  /\ markers = InitialMarkers
  /\ hitTimeoutRef = null
  /\ edgeHitTimeoutRef = null
  /\ zoomAnimationRef = null
  /\ initialZoomStateRef = <<>>
  /\ zoomCompletedRef = FALSE
  /\ isDraggingRef = FALSE
  /\ velocityRef = ZeroVelocity
  /\ canvasSizeRef = [width |-> 50, height |-> 50]
  /\ imageSizeRef = [width |-> ImageWidth(50, null),
                     height |-> ImageWidth(50, null)]
  /\ boundsRef = BoundsOf(canvasSizeRef, imageSizeRef)
  /\ animationRef = null
  /\ mounted = "mounted"
  /\ momFrames = {}
  /\ zoomFrames = {}
  /\ hitTimers = {}
  /\ edgeTimers = {}
  /\ score = initialScore
  /\ showGuessUI = FALSE
  /\ isZooming = FALSE
  /\ countdown = null
  /\ countdownStartedRef = TRUE
  /\ clockFrame = TRUE
  /\ budget = MaxBounceEvents
  /\ last = Idle("other")

NextBounce ==
  \/ handlePointerDown
  \/ \E d \in BounceDeltas, eager \in BOOLEAN : handlePointerMove(d, 16, eager)
  \/ endDrag
  \/ \E f \in momFrames, dt \in {0, 16}, eager \in BOOLEAN : step(f, dt, eager)
  \/ \E h \in Handles : EdgeTimerFires(h)

SpecBounce == InitBounce /\ [][NextBounce]_vars

----------------------------------------------------------------------------
(* One momentum loop alone: the canvas right after a drag release, frames
   firing with positive elapsed time and no new drag *)

InitCoast ==
  /\ InitNet
  /\ \E o \in ReleaseOffsets : offset = [x |-> o[1], y |-> o[2]]
  /\ \E v \in ReleaseVelocities : velocityRef = [vx |-> v[1], vy |-> v[2]]
  /\ hitColor = "none"
  /\ edgeHit = FALSE
  /\ zoomSizePercent = null
  /\ markers = InitialMarkers
  /\ hitTimeoutRef = null
  /\ edgeHitTimeoutRef = null
  /\ zoomAnimationRef = null
  /\ initialZoomStateRef = <<>>
  /\ zoomCompletedRef = FALSE
  /\ isDraggingRef = FALSE
  /\ canvasSizeRef = [width |-> 50, height |-> 50]
  /\ imageSizeRef = [width |-> ImageWidth(50, null),
                     height |-> ImageWidth(50, null)]
  /\ boundsRef = BoundsOf(canvasSizeRef, imageSizeRef)
  /\ animationRef = 1
  /\ mounted = "mounted"
  /\ momFrames = {[id |-> 1, first |-> TRUE, edge |-> FALSE]}
  /\ zoomFrames = {}
  /\ hitTimers = {}
  /\ edgeTimers = {}
  /\ score = initialScore
  /\ showGuessUI = FALSE
  /\ isZooming = FALSE
  /\ countdown = null
  /\ countdownStartedRef = TRUE
  /\ clockFrame = TRUE
  /\ budget = MaxFrames
  /\ last = Idle("endDrag")

\* the pending frame fires: the first step of a loop measures no elapsed
\* time, the later ones a positive one
NextCoast ==
  \E f \in momFrames, dt \in CoastDts \cup {0}, eager \in BOOLEAN :
    step(f, dt, eager)

\* the host keeps firing the pending frame: weak fairness of the frame
\* callback, which can fire whenever a frame is pending
SpecCoast ==
  /\ InitCoast
  /\ [][NextCoast]_vars
  /\ ([]<>(momFrames = {}) \/ []<><<NextCoast>>_vars)

----------------------------------------------------------------------------
(* POST /api/submit-score: each await is a point where other requests run *)

\* the handler up to its first await
SubmitScore(id, username, postId) ==
  /\ \A r \in submitRequests : r.id # id
  /\ submitRequests' = submitRequests \cup
       {[id |-> id, username |-> username, postId |-> postId,
         pc |-> IF username = "" THEN "done"
                ELSE IF postId # "" THEN "hGetAll" ELSE "zAdd",
         response |-> IF username = "" THEN "400" ELSE "none"]}
  /\ UNCHANGED <<submittedHash, leaderboard, queueHash, levelHashes,
                 postJobs, posts, queuedWith>>
  /\ UNCHANGED <<canvasVars, appVars, assetVars, arrowRotation, budget, last>>

\* redis.hGetAll(key) resolves and the handler tests the username
SubmitScoreChecked(r) ==
  /\ r.pc = "hGetAll"
  /\ submitRequests' = (submitRequests \ {r}) \cup
       {IF <<r.postId, r.username>> \in submittedHash
        THEN [r EXCEPT !.pc = "done", !.response = "alreadySubmitted"]
        ELSE [r EXCEPT !.pc = "hSet"]}
  /\ UNCHANGED <<submittedHash, leaderboard, queueHash, levelHashes,
                 postJobs, posts, queuedWith>>
  /\ UNCHANGED <<canvasVars, appVars, assetVars, arrowRotation, budget, last>>

\* redis.hSet(key, {[username]: '1'}) resolves
SubmitScoreMarked(r) ==
  /\ r.pc = "hSet"
  /\ submittedHash' = submittedHash \cup {<<r.postId, r.username>>}
  /\ submitRequests' = (submitRequests \ {r}) \cup {[r EXCEPT !.pc = "zAdd"]}
  /\ UNCHANGED <<leaderboard, queueHash, levelHashes, postJobs, posts,
                 queuedWith>>
  /\ UNCHANGED <<canvasVars, appVars, assetVars, arrowRotation, budget, last>>

\* redis.zAdd('leaderboard', ...) resolves and the handler answers ok
SubmitScoreWritten(r) ==
  /\ r.pc = "zAdd"
  /\ leaderboard' = Append(leaderboard,
                           [member |-> r.username, postId |-> r.postId])
  /\ submitRequests' = (submitRequests \ {r}) \cup
       {[r EXCEPT !.pc = "done", !.response = "ok"]}
  /\ UNCHANGED <<submittedHash, queueHash, levelHashes, postJobs, posts,
                 queuedWith>>
  /\ UNCHANGED <<canvasVars, appVars, assetVars, arrowRotation, budget, last>>

NextSubmit ==
  \/ \E id \in 1..MaxRequests, username \in Usernames, postId \in PostIds :
       SubmitScore(id, username, postId)
  \/ \E r \in submitRequests : SubmitScoreChecked(r)
  \/ \E r \in submitRequests : SubmitScoreMarked(r)
  \/ \E r \in submitRequests : SubmitScoreWritten(r)

SpecSubmit == Init /\ [][NextSubmit]_vars

----------------------------------------------------------------------------
(* The level queue: create-game-form queues a level, create-post publishes a
   queued level.  queuedWith records the answer and celebrity name that were
   submitted together with each level *)

\* POST /internal/form/create-game-form: one hSet on data:queue
CreateGameForm(levelName, imageUrl, answer, celebrityName) ==
  /\ queueHash' = [queueHash EXCEPT ![levelName] = imageUrl,
                                    !["answer"] = answer,
                                    !["celebrityName"] = celebrityName]
  /\ queuedWith' = [queuedWith EXCEPT
                      ![levelName] = [answer |-> answer,
                                      celebrityName |-> celebrityName]]
  /\ UNCHANGED <<submittedHash, leaderboard, submitRequests, levelHashes,
                 postJobs, posts>>
  /\ UNCHANGED <<canvasVars, appVars, assetVars, arrowRotation, budget, last>>

\* POST /internal/form/create-post: the handler answers and starts the job
CreatePost(id, levelName) ==
  /\ \A j \in postJobs : j.id # id
  /\ Len(posts) + Cardinality(postJobs) < MaxPosts
  /\ postJobs' = postJobs \cup
       {[id |-> id, levelName |-> levelName, pc |-> "hGetAll",
         levelData |-> "", answer |-> "", celebrityName |-> "",
         queued |-> [answer |-> "", celebrityName |-> ""]]}
  /\ UNCHANGED <<submittedHash, leaderboard, submitRequests, queueHash,
                 levelHashes, posts, queuedWith>>
  /\ UNCHANGED <<canvasVars, appVars, assetVars, arrowRotation, budget, last>>

\* redis.hGetAll(QUEUE_KEY) resolves: the job reads the level's image and
\* the answer and celebrityName fields, and ends when the level is not queued
CreatePostRead(j) ==
  /\ j.pc = "hGetAll"
  /\ postJobs' = (postJobs \ {j}) \cup
       (IF queueHash[j.levelName] = "" THEN {}
        ELSE {[j EXCEPT !.pc = "publish",
                        !.levelData = queueHash[j.levelName],
                        !.answer = queueHash["answer"],
                        !.celebrityName = queueHash["celebrityName"],
                        !.queued = queuedWith[j.levelName]]})
  /\ UNCHANGED <<submittedHash, leaderboard, submitRequests, queueHash,
                 levelHashes, posts, queuedWith>>
  /\ UNCHANGED <<canvasVars, appVars, assetVars, arrowRotation, budget, last>>

\* the job rewrites the level:<name> hash and submits the post
CreatePostPublish(j) ==
  /\ j.pc = "publish"
  /\ levelHashes' = [levelHashes EXCEPT
                       ![j.levelName] = [imageUrl |-> j.levelData,
                                         answer |-> j.answer,
                                         celebrityName |-> j.celebrityName]]
  /\ posts' = Append(posts, [levelName |-> j.levelName,
                             levelData |-> j.levelData,
                             answer |-> j.answer,
                             celebrityName |-> j.celebrityName,
                             queued |-> j.queued])
  /\ postJobs' = postJobs \ {j}
  /\ UNCHANGED <<submittedHash, leaderboard, submitRequests, queueHash,
                 queuedWith>>
  /\ UNCHANGED <<canvasVars, appVars, assetVars, arrowRotation, budget, last>>

NextForm ==
  \/ \E levelName \in LevelNames, imageUrl \in ImageUrls, answer \in Answers,
        celebrityName \in CelebrityNames :
       CreateGameForm(levelName, imageUrl, answer, celebrityName)
  \/ \E id \in 1..MaxPosts, levelName \in LevelNames : CreatePost(id, levelName)
  \/ \E j \in postJobs : CreatePostRead(j)
  \/ \E j \in postJobs : CreatePostPublish(j)

SpecForm == Init /\ [][NextForm]_vars

----------------------------------------------------------------------------
(* App: resolution of the image name.  A commit with a new name leaves the
   effect pending; React runs the pending effect (cleanup of the previous run
   first) at the latest before the next render; state updates are queued and
   applied in order by the next render *)

setResolvedImageUrl(value) == [var |-> "resolvedImageUrl", value |-> value]
setImageLoadError(value) == [var |-> "imageLoadError", value |-> value]

\* the state after the queued updates, applied in order
RECURSIVE Applied(_, _, _)
Applied(resolved, error, updates) ==
  IF updates = <<>> THEN [resolvedImageUrl |-> resolved, imageLoadError |-> error]
  ELSE IF Head(updates).var = "resolvedImageUrl"
       THEN Applied(Head(updates).value, error, Tail(updates))
       ELSE Applied(resolved, Head(updates).value, Tail(updates))

\* a cleanup that leaves the flag of the superseded request alone
effectCleanupNone(fetches) == fetches

\* the effect's cleanup: cancelled = true in the closure of the previous run
\* (the requests of earlier runs are cancelled already)
effectCleanup(fetches) == {[f EXCEPT !.cancelled = TRUE] : f \in fetches}

\* the effect body for the name: the updates it queues and the request it
\* starts
effectBody(name, fetches, updates) ==
  IF name \in DirectUrls
  THEN [fetches |-> fetches,
        updates |-> updates \o <<setResolvedImageUrl(name),
                                 setImageLoadError(NoError)>>]
  ELSE IF name \in BlockedUrls
  THEN [fetches |-> fetches,
        updates |-> updates \o
          <<setResolvedImageUrl(""),
            setImageLoadError([code |-> "csp_connect_src", of |-> name])>>]
  ELSE IF name \in AssetNames
  THEN [fetches |-> fetches \cup
          {[id |-> SetMin((1..MaxFetches) \ Ids(fetches)), name |-> name,
            cancelled |-> FALSE]},
        updates |-> updates \o <<setResolvedImageUrl(""),
                                 setImageLoadError(NoError)>>]
  ELSE [fetches |-> fetches,
        updates |-> updates \o <<setResolvedImageUrl(name),
                                 setImageLoadError(NoError)>>]

\* the pending effect, if any, has run
Flushed ==
  IF effectPending
  THEN effectBody(rawImageUrl, effectCleanup(assetFetches), stateUpdates)
  ELSE [fetches |-> assetFetches, updates |-> stateUpdates]

\* a render commits the queued updates, with a new name or the same one
Committed(name) ==
  LET a == Applied(resolvedImageUrl, imageLoadError, Flushed.updates)
  IN /\ assetFetches' = Flushed.fetches
     /\ stateUpdates' = <<>>
     /\ resolvedImageUrl' = a.resolvedImageUrl
     /\ imageLoadError' = a.imageLoadError
     /\ rawImageUrl' = name
     /\ effectPending' = (name # rawImageUrl)

\* the init or levels response gives App another image name
NameChanges(name) ==
  /\ name # rawImageUrl
  /\ Cardinality(Flushed.fetches) < MaxFetches
  /\ Committed(name)
  /\ UNCHANGED <<canvasVars, appVars, serverVars, arrowRotation, budget, last>>

\* App renders again with the same name
Render ==
  /\ effectPending \/ stateUpdates # <<>>
  /\ Committed(rawImageUrl)
  /\ UNCHANGED <<canvasVars, appVars, serverVars, arrowRotation, budget, last>>

\* the scheduler runs the pending effect before any render
FlushEffects ==
  /\ effectPending
  /\ assetFetches' = Flushed.fetches
  /\ stateUpdates' = Flushed.updates
  /\ effectPending' = FALSE
  /\ UNCHANGED <<rawImageUrl, resolvedImageUrl, imageLoadError>>
  /\ UNCHANGED <<canvasVars, appVars, serverVars, arrowRotation, budget, last>>

\* the request f is answered: with the asset's URL, with an HTTP error, or
\* the fetch fails; a cancelled closure queues nothing
AssetResponds(f, outcome) ==
  /\ f \in assetFetches
  /\ assetFetches' = assetFetches \ {f}
  /\ stateUpdates' =
       IF f.cancelled THEN stateUpdates
       ELSE IF outcome = "url"
       THEN stateUpdates \o <<setResolvedImageUrl(UrlOf(f.name)),
                              setImageLoadError(NoError)>>
       ELSE IF outcome = "http_error"
       THEN stateUpdates \o
              <<setImageLoadError([code |-> "asset_http", of |-> f.name]),
                setResolvedImageUrl("")>>
       ELSE stateUpdates \o <<setResolvedImageUrl("")>>
  /\ last' = [Idle("assetResponse") EXCEPT !.cancelled = f.cancelled]
  /\ UNCHANGED <<rawImageUrl, resolvedImageUrl, imageLoadError,
                 effectPending>>
  /\ UNCHANGED <<canvasVars, appVars, serverVars, arrowRotation, budget>>

NextAsset ==
  \/ \E name \in ImageNames : NameChanges(name)
  \/ Render
  \/ FlushEffects
  \/ \E f \in assetFetches, outcome \in {"url", "http_error", "failed"} :
       AssetResponds(f, outcome)

SpecAsset == Init /\ [][NextAsset]_vars

----------------------------------------------------------------------------
(* Claims *)

SpeedSq(v) == v.vx * v.vx + v.vy * v.vy

WithinHardBounds ==
  /\ boundsRef.hardMinX <= offset.x /\ offset.x <= boundsRef.hardMaxX
  /\ boundsRef.hardMinY <= offset.y /\ offset.y <= boundsRef.hardMaxY

\* C1: the offset stored by a drag-move or by a momentum step lies within the
\* hard bounds on both axes.
C1_StoredOffsetWithinHardBounds == last.stored => WithinHardBounds

\* C1 witness: a drag-move whose target lay beyond the hard bound was stored
\* at the bound.
C1_Witness ==
  /\ last.stored
  /\ last.name = "handlePointerMove"
  /\ boundsRef.hardMaxX > boundsRef.softMaxX
  /\ offset.x = boundsRef.hardMaxX

\* C2: one collision pass deactivates at most one marker.
C2_AtMostOneDeactivatedPerPass == last.deactivated <= 1

\* C3: with several active markers in range, the type reported by the pass is
\* the type of the first of them in array order.
C3_FirstInRangeReported ==
  last.inRange >= 2 => last.reported = last.firstType

\* C4: no step reactivates a marker, and the number of onMarkerHit calls of a
\* step equals the number of markers the step deactivated (none when no
\* active marker is in range).
C4_OneCallPerDeactivation ==
  [][/\ \A k \in DOMAIN markers : ~markers[k].active => ~markers'[k].active
     /\ last'.calls =
          Cardinality({k \in DOMAIN markers :
                         markers[k].active /\ ~markers'[k].active})]_vars

\* C5: a collision resolved while the stored velocity is (0, 0) leaves the
\* nudge velocity (0.45, 0.45).
C5_ZeroVelocityNudged ==
  (last.reported # "none" /\ last.vin = ZeroVelocity)
    => last.vout = [vx |-> nudge, vy |-> nudge]

\* C6 as claimed: for a nonzero incoming velocity a powerup yields a speed
\* strictly above the incoming speed and at most the cap, an obstacle a speed
\* strictly below the incoming speed.
C6_PowerupFasterObstacleSlower ==
  (last.reported # "none" /\ last.vin # ZeroVelocity) =>
    IF last.reported = "powerup"
    THEN /\ SpeedSq(last.vout) > SpeedSq(last.vin)
         /\ SpeedSq(last.vout) <= maxSpeed * maxSpeed
    ELSE SpeedSq(last.vout) < SpeedSq(last.vin)

\* C6 amended: for a nonzero incoming velocity a powerup yields a speed of at
\* most the cap, strictly above the incoming speed when that is below the
\* cap; an obstacle yields a speed strictly below the incoming speed.
C6_PowerupFasterBelowCap ==
  (last.reported # "none" /\ last.vin # ZeroVelocity) =>
    IF last.reported = "powerup"
    THEN /\ SpeedSq(last.vout) <= maxSpeed * maxSpeed
         /\ SpeedSq(last.vin) < maxSpeed * maxSpeed
              => SpeedSq(last.vout) > SpeedSq(last.vin)
    ELSE SpeedSq(last.vout) < SpeedSq(last.vin)

\* C6 witness: a powerup resolved with a nonzero velocity below the cap whose
\* boosted speed was cut back to the cap.
C6_Witness ==
  /\ last.reported = "powerup"
  /\ last.vin = [vx |-> 900, vy |-> 0]
  /\ last.vout = [vx |-> maxSpeed, vy |-> 0]

\* C7: no step taken while showGuessUI or isZooming is true changes the score.
C7_ScoreFrozenInGuessPhase ==
  [][(showGuessUI \/ isZooming) => score' = score]_vars

\* C8: once the zoom animation has completed, and while isZooming stays true,
\* the offset is (0, 0) and the size is 100%.
C8_NeutralAfterZoom ==
  (mounted = "mounted" /\ isZooming /\ zoomCompletedRef) =>
    /\ offset = [x |-> 0, y |-> 0]
    /\ zoomSizePercent = endSizePercent

\* C9: after the unmount no momentum frame, no zoom frame and no glow or
\* edge-hit timer of the canvas is pending.
C9_NothingPendingAfterUnmount ==
  mounted = "unmounted" =>
    /\ momFrames = {}
    /\ zoomFrames = {}
    /\ hitTimers = {}
    /\ edgeTimers = {}

\* C10: at most one momentum frame and at most one zoom frame is pending.
C10_OneFramePerLoop ==
  /\ Cardinality(momFrames) <= 1
  /\ Cardinality(zoomFrames) <= 1

\* C10 witness: both loops are live at once, each past its first frame.
C10_Witness ==
  /\ \E f \in momFrames : ~f.first
  /\ \E z \in zoomFrames : z.el > 0

\* C11: a drag-start leaves the velocity at (0, 0), and whenever a drag is in
\* progress no momentum frame is pending.
C11_NoMomentumWhileDragging ==
  /\ isDraggingRef => momFrames = {}
  /\ last.name = "handlePointerDown" =>
       /\ isDraggingRef
       /\ velocityRef = ZeroVelocity
       /\ animationRef = null

\* C11 witness: a drag started while a momentum frame was pending, and the
\* frame was cancelled.
C11_Witness ==
  /\ last.name = "handlePointerDown"
  /\ last.cancelled
  /\ isDraggingRef

\* C12: a momentum step entered with |vx| < 0.01 and |vy| < 0.01 changes
\* neither the offset nor the velocity, schedules no further frame and clears
\* the momentum handle.
C12_StepBelowEpsilonStops ==
  [][(/\ last'.name = "step"
      /\ Abs(velocityRef.vx) < stopEpsilon
      /\ Abs(velocityRef.vy) < stopEpsilon)
       => /\ offset' = offset
          /\ velocityRef' = velocityRef
          /\ momFrames' = {}
          /\ animationRef' = null]_vars

\* C12 witness: a loop that coasted until its velocity, still nonzero, fell
\* below the epsilon, and whose next step stopped it.
C12_Witness ==
  /\ last.name = "step"
  /\ ~last.stored
  /\ velocityRef # ZeroVelocity
  /\ Abs(velocityRef.vx) < stopEpsilon
  /\ Abs(velocityRef.vy) < stopEpsilon
  /\ animationRef = null
  /\ momFrames = {}

WithinSoftBounds ==
  /\ boundsRef.softMinX <= offset.x /\ offset.x <= boundsRef.softMaxX
  /\ boundsRef.softMinY <= offset.y /\ offset.y <= boundsRef.softMaxY

\* C13: once a step of the momentum loop that follows a release has run, the
\* offset is no longer beyond a soft bound.
C13_LoopLeavesOvershootZone == last.name = "step" => WithinSoftBounds

\* C14: a computeBounds that measures a zero width or height of the container
\* or of the image leaves the stored bounds and the offset unchanged.
C14_ZeroSizeIsNoOp ==
  [][(/\ last'.name = "computeBounds"
      /\ \/ canvasSizeRef'.width = 0 \/ canvasSizeRef'.height = 0
         \/ imageSizeRef'.width = 0 \/ imageSizeRef'.height = 0)
       => /\ boundsRef' = boundsRef
          /\ offset' = offset]_vars

\* the last operation was a computeBounds on non-degenerate rectangles
MeasuredNonDegenerate ==
  /\ last.name = "computeBounds"
  /\ canvasSizeRef.width > 0 /\ canvasSizeRef.height > 0
  /\ imageSizeRef.width > 0 /\ imageSizeRef.height > 0

\* hard bounds are the soft bounds expanded by half the container dimension
HardIsSoftPlusHalfContainer ==
  /\ 2 * (boundsRef.hardMaxX - boundsRef.softMaxX) = canvasSizeRef.width
  /\ 2 * (boundsRef.softMinX - boundsRef.hardMinX) = canvasSizeRef.width
  /\ 2 * (boundsRef.hardMaxY - boundsRef.softMaxY) = canvasSizeRef.height
  /\ 2 * (boundsRef.softMinY - boundsRef.hardMinY) = canvasSizeRef.height

\* C15 as claimed: for non-degenerate sizes the soft bounds are -(I - C)/2 and
\* +(I - C)/2 per axis and the hard bounds are the soft bounds expanded by
\* 0.5 x C.
C15_SoftIsHalfDifference ==
  MeasuredNonDegenerate =>
    /\ 2 * boundsRef.softMaxX = imageSizeRef.width - canvasSizeRef.width
    /\ 2 * boundsRef.softMinX = canvasSizeRef.width - imageSizeRef.width
    /\ 2 * boundsRef.softMaxY = imageSizeRef.height - canvasSizeRef.height
    /\ 2 * boundsRef.softMinY = canvasSizeRef.height - imageSizeRef.height
    /\ HardIsSoftPlusHalfContainer

\* C15 amended: for non-degenerate sizes the soft bounds are -max(0, I - C)/2
\* and +max(0, I - C)/2 per axis and the hard bounds are the soft bounds
\* expanded by 0.5 x C; C = 300, I = 1800 gives -750/+750 and -900/+900.
C15_SoftIsHalfExcess ==
  MeasuredNonDegenerate =>
    /\ 2 * boundsRef.softMaxX
         = Max(0, imageSizeRef.width - canvasSizeRef.width)
    /\ boundsRef.softMinX = -boundsRef.softMaxX
    /\ 2 * boundsRef.softMaxY
         = Max(0, imageSizeRef.height - canvasSizeRef.height)
    /\ boundsRef.softMinY = -boundsRef.softMaxY
    /\ HardIsSoftPlusHalfContainer
    /\ (canvasSizeRef.width = 300 /\ imageSizeRef.width = 1800) =>
         /\ boundsRef.softMinX = -750 /\ boundsRef.softMaxX = 750
         /\ boundsRef.hardMinX = -900 /\ boundsRef.hardMaxX = 900

\* C15 witness: a 300 px wide container with an 1800 px wide image, and an
\* image lower than the container.
C15_Witness ==
  /\ MeasuredNonDegenerate
  /\ canvasSizeRef.width = 300 /\ imageSizeRef.width = 1800
  /\ boundsRef.softMaxX = 750 /\ boundsRef.hardMaxX = 900
  /\ imageSizeRef.height < canvasSizeRef.height
  /\ boundsRef.softMaxY = 0

\* C16: after every computeBounds the offset lies within the newly computed
\* hard bounds on both axes.
C16_OffsetClampedOnRecompute ==
  last.name = "computeBounds" => WithinHardBounds

\* C16 witness: an offset beyond the new hard bounds on both axes, stored at
\* the bounds by the computeBounds.
C16_Witness ==
  /\ last.name = "computeBounds"
  /\ boundsRef.hardMaxX = 900 /\ offset.x = 900
  /\ boundsRef.hardMinY = -150 /\ offset.y = -150

\* C17: the stored bounds satisfy hardMin <= softMin <= softMax <= hardMax on
\* both axes.
C17_HardContainsSoft ==
  /\ boundsRef.hardMinX <= boundsRef.softMinX
  /\ boundsRef.softMinX <= boundsRef.softMaxX
  /\ boundsRef.softMaxX <= boundsRef.hardMaxX
  /\ boundsRef.hardMinY <= boundsRef.softMinY
  /\ boundsRef.softMinY <= boundsRef.softMaxY
  /\ boundsRef.softMaxY <= boundsRef.hardMaxY

\* C17 witness: bounds computed for an image smaller than the container.
C17_Witness ==
  /\ MeasuredNonDegenerate
  /\ imageSizeRef.width < canvasSizeRef.width
  /\ boundsRef.softMinX = 0 /\ boundsRef.softMaxX = 0
  /\ boundsRef.hardMaxX > 0

\* a is b scaled by num / den, up to the truncation of the fixed-point unit
ScaledBy(a, b, num, den) == Abs(den * a - num * b) < den

\* out has the direction of in and a magnitude of the cap, up to the
\* truncation of the fixed-point unit
RescaledToCap(out, in) ==
  /\ out.vx * in.vx >= 0
  /\ out.vy * in.vy >= 0
  /\ Abs(out.vx * in.vy - out.vy * in.vx) <= 2 * (Abs(in.vx) + Abs(in.vy))
  /\ SpeedSq(out) <= maxSpeed * maxSpeed
  /\ SpeedSq(out) >= (maxSpeed - 3) * (maxSpeed - 3)

\* the boosted speed 2.3 |in| exceeds the cap
BoostExceedsCap(in) ==
  SpeedSq(in) > (maxSpeed * maxSpeed * 100) \div (boostFactor * boostFactor)

Between0(v, bound) == v * bound >= 0 /\ Abs(v) <= Abs(bound)

\* C20: each zoom sample is no farther from neutral than the sample before it
\* on every coordinate, and lies between the start snapshot and neutral.
C20_ZoomMonotone ==
  [][last'.name = "animate" =>
       \A f \in zoomFrames :
         /\ Abs(offset'.x) <= Abs(offset.x)
         /\ Abs(offset'.y) <= Abs(offset.y)
         /\ zoomSizePercent' <= zoomSizePercent
         /\ Between0(offset'.x, f.sx)
         /\ Between0(offset'.y, f.sy)
         /\ endSizePercent <= zoomSizePercent'
         /\ zoomSizePercent' <= f.size]_vars

\* C20 witness: the second sample of an animation, strictly between the
\* first sample and neutral.
C20_Witness ==
  /\ last.name = "animate"
  /\ last.elapsed = 500
  /\ \E f \in zoomFrames :
       /\ f.sx = 120
       /\ 0 < offset.x /\ offset.x < Eased(120, 0, 100)
       /\ endSizePercent < zoomSizePercent
       /\ zoomSizePercent < Eased(ZOOM_PERCENT, endSizePercent, 100)

\* C21: the zoom start snapshot is captured when isZooming turns on, is the
\* same as long as it is held, is held while the animation is in flight, and
\* is cleared when the animation has completed or isZooming is off.
C21_SnapshotOncePerActivation ==
  /\ [](/\ \A f \in zoomFrames :
             /\ initialZoomStateRef # <<>>
             /\ initialZoomStateRef[1].offset = [x |-> f.sx, y |-> f.sy]
             /\ initialZoomStateRef[1].sizePercent = f.size
        /\ ~isZooming => initialZoomStateRef = <<>>
        /\ (isZooming /\ zoomCompletedRef) => initialZoomStateRef = <<>>)
  /\ [][/\ (initialZoomStateRef # <<>> /\ initialZoomStateRef' # <<>>)
             => initialZoomStateRef' = initialZoomStateRef
        /\ (~isZooming /\ isZooming')
             => initialZoomStateRef' =
                  << [offset |-> offset, sizePercent |-> ZOOM_PERCENT] >>]_vars

\* C21 witness: an animation in flight past its first frame, holding its
\* snapshot while a momentum step has moved the live offset.
C21_Witness ==
  /\ last.name = "step"
  /\ last.stored
  /\ initialZoomStateRef # <<>>
  /\ \E f \in zoomFrames :
       /\ f.el > 0
       /\ initialZoomStateRef[1].offset = [x |-> f.sx, y |-> f.sy]
       /\ offset # initialZoomStateRef[1].offset

\* C22: turning isZooming off after the zoom has completed leaves the size at
\* 100%; turning it off before completion cancels the pending zoom frame, and
\* no zoom frame is pending while isZooming is off.
C22_ZoomOffKeepsCompletedSize ==
  /\ [](~isZooming => zoomFrames = {})
  /\ [][(isZooming /\ ~isZooming') =>
          /\ zoomFrames' = {}
          /\ zoomAnimationRef' = null
          /\ offset' = offset
          /\ zoomCompletedRef => zoomSizePercent' = endSizePercent]_vars

\* C22 witness: isZooming was turned off after the zoom had completed.
C22_Witness ==
  /\ last.name = "zoomOff"
  /\ ~isZooming
  /\ zoomCompletedRef
  /\ zoomSizePercent = endSizePercent

\* C23: a pointer event while isZooming is true changes neither the offset,
\* the velocity, the dragging flag nor the markers and starts or cancels no
\* momentum loop; no pointer handler runs while isZooming is true.
C23_PointerIgnoredWhileZooming ==
  [][/\ last'.name = "pointerIgnored" =>
          /\ isZooming
          /\ UNCHANGED <<offset, velocityRef, isDraggingRef, markers,
                         momFrames, animationRef>>
     /\ isZooming =>
          last'.name \notin {"handlePointerDown", "handlePointerMove",
                             "endDrag"}]_vars

\* C23 witness: a pointer event was dispatched while isZooming was true and a
\* momentum frame was pending; the frame is still pending.
C23_Witness ==
  /\ last.name = "pointerIgnored"
  /\ isZooming
  /\ momFrames # {}
  /\ animationRef # null
  /\ ~isDraggingRef

\* C24: the score is never negative, and a frame of the score clock never
\* increases it.
C24_ScoreNonNegative ==
  /\ [](score >= 0)
  /\ [][last'.name = "tick" => score' <= score]_vars

\* C24 witness: a clock frame longer than the remaining score left the score
\* at the floor.
C24_Witness ==
  /\ last.name = "tick"
  /\ score = 0

\* C25 as claimed: every onMarkerHit call changes the score by exactly +500
\* (powerup) or exactly -500 (obstacle).
C25_HitJumpsBy500 ==
  [][last'.calls = 1 =>
       score' = IF last'.reported = "powerup"
                THEN score + hitScore ELSE score - hitScore]_vars

\* C25 amended: every onMarkerHit call changes the score by exactly +500
\* (powerup), or by -500 floored at 0 (obstacle).
C25_HitJumpsBy500Floored ==
  [][last'.calls = 1 =>
       score' = IF last'.reported = "powerup"
                THEN score + hitScore
                ELSE IF score >= hitScore THEN score - hitScore ELSE 0]_vars

\* C25 witness: an obstacle hit at a score below 500.
C25_Witness ==
  /\ last.reported = "obstacle"
  /\ last.calls = 1
  /\ ~markers[1].active
  /\ score = 0

\* the score clock may run: the countdown was started and has ended, and
\* neither the guess UI nor the zoom is on
ClockMayRun ==
  /\ mounted # "pending"
  /\ countdownStartedRef
  /\ countdown = null
  /\ ~showGuessUI
  /\ ~isZooming

\* C26: a frame of the score clock is pending, and fires, only after the
\* image became ready and the countdown went 3, 2, 1, null, and only while
\* neither showGuessUI nor isZooming is true; the countdown starts once.
C26_ClockOnlyAfterCountdown ==
  /\ [](clockFrame => ClockMayRun)
  /\ [][/\ last'.name = "tick" => ClockMayRun
        /\ countdown' # countdown =>
             \/ countdown = null /\ countdown' = 3 /\ ~countdownStartedRef
             \/ countdown = 3 /\ countdown' = 2
             \/ countdown = 2 /\ countdown' = 1
             \/ countdown = 1 /\ countdown' = null]_vars

\* C26 witness: the first frame of the score clock after the countdown.
C26_Witness ==
  /\ last.name = "tick"
  /\ ClockMayRun
  /\ clockFrame
  /\ score = initialScore - 60000

\* C27: for the collision glow and for the edge-hit flag at most one
\* auto-clear timer is pending, and it is the one the flag's handle names.
C27_OneTimerPerFlag ==
  /\ Cardinality(hitTimers) <= 1
  /\ Cardinality(edgeTimers) <= 1
  /\ hitTimers \subseteq {hitTimeoutRef}
  /\ edgeTimers \subseteq {edgeHitTimeoutRef}

\* C27 witness: the glow was re-triggered while its timer was pending, and
\* one glow timer is pending.
C27_Witness ==
  /\ last.name = "glow"
  /\ last.restarted
  /\ Cardinality(hitTimers) = 1
  /\ hitTimeoutRef \in hitTimers

\* squared distance of two markers in percent space
DistSq(a, b) == (a.x - b.x) * (a.x - b.x) + (a.y - b.y) * (a.y - b.y)

\* C28: every pair of generated markers is at least 5 apart (Euclidean
\* distance in percent space), whatever candidates were drawn
C28_MarkersSpacedApart ==
  \A i \in DOMAIN markers : \A j \in DOMAIN markers :
    i # j => DistSq(markers[i], markers[j]) >= 25

\* the generator returned a full list in which two markers are exactly 5
\* apart and one candidate was rejected
C28_Witness ==
  /\ last.name = "return"
  /\ Len(markers) = MaxMarkers
  /\ budget = MaxAttempts - MaxMarkers - 1
  /\ \E i \in DOMAIN markers : \E j \in DOMAIN markers :
       DistSq(markers[i], markers[j]) = 25

\* C29: generation ends after at most the attempt limit (every iteration,
\* accepted or rejected, uses one attempt) with at most the requested count
\* of markers; when the attempts run out first it returns the markers
\* accepted so far, fewer than the count
C29_GenerationBounded ==
  /\ [](budget >= 0 /\ budget <= MaxAttempts /\ Len(markers) <= MaxMarkers)
  /\ []((last.name = "return" /\ Len(markers) < MaxMarkers) => budget = 0)
  /\ [](last.name = "return" => (Len(markers) = MaxMarkers \/ budget = 0))
  /\ [][/\ last'.name = "candidate" => (budget > 0 /\ budget' = budget - 1)
        /\ last'.name = "return" => markers' = markers
        /\ last.name = "return" => markers' = markers]_vars

\* the attempts ran out with fewer markers than requested
C29_Witness ==
  /\ last.name = "return"
  /\ budget = 0
  /\ Len(markers) > 0
  /\ Len(markers) < MaxMarkers

\* C30: the k-th accepted marker (from 0) has id k and is an obstacle when
\* k mod 5 < 2 and a powerup otherwise; rejected candidates do not advance
\* the pattern
C30_TypePattern ==
  /\ [](\A n \in DOMAIN markers :
          /\ markers[n].id = n - 1
          /\ markers[n].type =
               (IF (n - 1) % 5 \in {0, 1} THEN "obstacle" ELSE "powerup"))
  /\ [][(last'.name = "candidate" /\ ~last'.stored) => markers' = markers]_vars

\* one of seven candidates was rejected and the sixth acceptance produced
\* the marker with id 5, an obstacle again
C30_Witness ==
  /\ last.name = "candidate"
  /\ last.stored
  /\ Len(markers) = 6
  /\ budget = 0
  /\ markers[6].type = "obstacle"
  /\ markers[3].type = "powerup"


\* C31: whatever the interleaving of submit-score requests, at most one
\* request per username and post is answered ok and writes the leaderboard
C31_OneAcceptedPerUserAndPost ==
  \A u \in Usernames \ {""} : \A p \in PostIds \ {""} :
    /\ Cardinality({r \in submitRequests :
                      r.username = u /\ r.postId = p /\ r.response = "ok"})
         <= 1
    /\ Cardinality({k \in DOMAIN leaderboard :
                      leaderboard[k].member = u /\ leaderboard[k].postId = p})
         <= 1


\* C32: after a momentum step that resolved a collision, the stored
\* velocity is the collision-scaled velocity combined with the frame's
\* friction decay (in either order), not the step's own write-back
C32_CollisionVelocityKept ==
  (last.name = "step" /\ last.reported # "none") =>
    \E dt \in FrameDts \cup {0} :
      velocityRef \in {last.vout, Decayed(last.vout, dt)}


\* C33: after every momentum step that bounced at a soft bound the edge-hit
\* flag is true and its auto-clear timer is pending, also in a loop started
\* while the flag was still true from an earlier bounce
C33_BounceSetsEdgeHit ==
  (last.name = "step" /\ last.bounced) =>
    (edgeHit /\ edgeHitTimeoutRef \in edgeTimers)


\* one axis of an executed step: beyond a soft bound the position is that
\* bound and the velocity is -0.4 times the incoming one; otherwise both are
\* the projected position and the incoming velocity
AxisBounced(proj, pos, vpre, vpost, softMin, softMax) ==
  IF proj > softMax THEN pos = softMax /\ ScaledBy(vpost, vpre, -4, 10)
  ELSE IF proj < softMin THEN pos = softMin /\ ScaledBy(vpost, vpre, -4, 10)
  ELSE pos = proj /\ vpost = vpre

\* C34: an executed momentum step handles each axis on its own (clamp to the
\* soft bound and reflect with factor -0.4 on an axis that overshoots, leave
\* the other axis alone), and leaves the offset within the soft bounds
C34_PerAxisBounce ==
  (last.name = "step" /\ last.stored) =>
    /\ AxisBounced(last.proj.x, offset.x, last.vpre.vx, last.vin.vx,
                   boundsRef.softMinX, boundsRef.softMaxX)
    /\ AxisBounced(last.proj.y, offset.y, last.vpre.vy, last.vin.vy,
                   boundsRef.softMinY, boundsRef.softMaxY)
    /\ WithinSoftBounds

\* a step bounced at the left soft bound while moving upwards: x sits on the
\* bound with the velocity reversed, y and its velocity are as projected
C34_Witness ==
  /\ last.name = "step"
  /\ last.stored
  /\ last.proj.x < boundsRef.softMinX
  /\ offset.x = boundsRef.softMinX
  /\ last.vpre.vx < 0
  /\ last.vin.vx > 0
  /\ last.vpre.vy < 0
  /\ last.vin.vy = last.vpre.vy
  /\ offset.y = last.proj.y
  /\ offset.y > boundsRef.softMinY


\* C35: a momentum loop started by a drag release eventually stops (handle
\* null, no frame pending) when frames keep firing with positive elapsed time
\* and no drag starts; it stops by itself, with frames to spare, whatever
\* bounces and boosts happen on the way
C35_MomentumStops ==
  /\ <>[](momFrames = {} /\ animationRef = null)
  /\ [](momFrames # {} => budget > 0)

\* a loop has stopped after it took a powerup and bounced at a soft bound
C35_Witness ==
  /\ momFrames = {}
  /\ animationRef = null
  /\ last.name = "step"
  /\ ~last.stored
  /\ ~markers[3].active
  /\ edgeHit
  /\ budget < MaxFrames - 2


\* C36: while the canvas stays mounted, a lit collision glow is eventually
\* followed by hitColor = "none" and a set edge-hit flag by edgeHit = FALSE,
\* once the triggers have stopped and the last timer has run out
C36_FlagsEventuallyClear ==
  /\ (hitColor # "none") ~> (hitColor = "none")
  /\ edgeHit ~> ~edgeHit

\* both flags were activated and both have been cleared by their timers
C36_Witness ==
  /\ mounted = "mounted"
  /\ hitColor = "none"
  /\ hitTimeoutRef # null
  /\ hitTimers = {}
  /\ ~edgeHit
  /\ edgeHitTimeoutRef # null
  /\ edgeTimers = {}


\* deg is the direction of v in whole degrees: exact for the multiples of 45
\* degrees, inside the right octant otherwise
DirectionOf(v, deg) ==
  LET ax == Abs(v.vx)
      ay == Abs(v.vy)
      a == IF v.vy >= 0 THEN (IF v.vx >= 0 THEN deg ELSE 180 - deg)
           ELSE (IF v.vx >= 0 THEN -deg ELSE deg + 180)
  IN /\ deg > -180 /\ deg <= 180
     /\ ay = 0 => a = 0
     /\ ax = 0 => a = 90
     /\ (ax = ay) => a = 45
     /\ (ax > ay /\ ay > 0) => (a >= 0 /\ a <= 45)
     /\ (ay > ax /\ ax > 0) => (a >= 45 /\ a <= 90)

\* the release velocity has a component above 0.01 px/ms
AboveArrowThreshold == Abs(velocityRef.vx) > 10 \/ Abs(velocityRef.vy) > 10

\* C37: the arrow rotation changes only at a drag release with |vx| > 0.01
\* or |vy| > 0.01, where it becomes the direction of the release velocity
\* plus 180 degrees; every other operation leaves it unchanged
C37_ArrowSetAtRelease ==
  [][/\ arrowRotation' # arrowRotation =>
          (last'.name = "endDrag" /\ AboveArrowThreshold)
     /\ (last'.name = "endDrag" /\ AboveArrowThreshold) =>
          DirectionOf(velocityRef, arrowRotation' - 180)]_vars

\* a release to the left turned the arrow to 360 degrees, and a momentum step
\* has run since without changing it
C37_Witness ==
  /\ last.name = "step"
  /\ last.stored
  /\ arrowRotation = 360
  /\ velocityRef.vx < 0


\* C38: a post created for a queued level carries the answer and celebrity
\* name that were submitted together with that level, whatever other levels
\* were queued in between
C38_PostCarriesItsLevelData ==
  \A k \in DOMAIN posts :
    /\ posts[k].answer = posts[k].queued.answer
    /\ posts[k].celebrityName = posts[k].queued.celebrityName


\* the values the effect and the request for the name may store
ResolvedFor(name) == {"", name} \cup (IF name \in AssetNames THEN {UrlOf(name)} ELSE {})

\* C39: when resolvedImageUrl or imageLoadError changes, the new value comes
\* from the effect or the request of the name current before or after the
\* commit, never from the late answer of a superseded request
C39_StaleResponseIgnored ==
  [][/\ resolvedImageUrl' # resolvedImageUrl =>
          resolvedImageUrl' \in ResolvedFor(rawImageUrl) \cup ResolvedFor(rawImageUrl')
     /\ imageLoadError' # imageLoadError =>
          imageLoadError'.of \in {"", rawImageUrl, rawImageUrl'}]_vars

\* the name changed while a request was in flight: the superseded request
\* has just been answered, the request for the current name is pending, and
\* the state shows nothing of the old name
C39_Witness ==
  /\ rawImageUrl = "b.png"
  /\ ~effectPending
  /\ stateUpdates = <<>>
  /\ last.name = "assetResponse"
  /\ last.cancelled
  /\ \E f \in assetFetches : f.name = "b.png" /\ ~f.cancelled
  /\ resolvedImageUrl = ""
  /\ imageLoadError = NoError


====
